---- MODULE Spec2Model ----
(***************************************************************************)
(* mcp-mail-manager: the local encrypted credential vault.                 *)
(*                                                                         *)
(*   src/src/lib/crypto.ts    key manager and field cipher                 *)
(*   src/src/lib/accounts.ts  credential store (accounts.json)             *)
(*   src/src/tools/*.ts       the tool handlers that call the store        *)
(*                                                                         *)
(* Strings are sequences of character codes (ASCII), so that startsWith,   *)
(* slice, split and replace are computed as the code computes them.  A     *)
(* Buffer is a sequence of bytes.  The base64 text of a Buffer is computed  *)
(* as base64 computes it, three bytes to four symbols of six bits; the     *)
(* symbol of value v is written 256 + v, a code that is no ASCII character *)
(* (in particular not ':'), and the padding is '='.                        *)
(***************************************************************************)
EXTENDS Integers, Sequences, FiniteSets, TLC

(***************************************************************************)
(* Bounds of the model.                                                    *)
(***************************************************************************)
\* number of distinct master secrets (env values, key-file contents, fresh ones)
NumSecrets == 2
\* number of distinct values randomBytes(IV_LENGTH) can return
NumIVs == 2
\* number of tool calls that can be in flight at once in the server process
NumCalls == 2
\* length of the email addresses made of all characters of a small alphabet
MaxEmailLen == 2
\* number of store calls a run of overlapping calls starts
MaxStarted == 3

Secrets == 1..NumSecrets
Calls == 1..NumCalls

(***************************************************************************)
(* Characters and strings.                                                 *)
(***************************************************************************)
\* ":" , the separator of crypto.ts:69 and crypto.ts:74
Colon == 58
\* "-" , the replacement character of add-account.ts:64
Dash == 45
\* "@"
At == 64
\* number of values of a byte
ByteRange == 256

EmptyString == << >>

\* "enc:local:"
PREFIX_LOCAL == <<101, 110, 99, 58, 108, 111, 99, 97, 108, 58>>

\* String.prototype.startsWith
StartsWith(s, prefix) ==
    /\ Len(s) >= Len(prefix)
    /\ SubSeq(s, 1, Len(prefix)) = prefix

\* String.prototype.slice(n): the string without its first n characters
Slice(s, n) == SubSeq(s, n + 1, Len(s))

\* index of the first occurrence of character c in s, 0 when there is none
RECURSIVE IndexOfFrom(_, _, _)
IndexOfFrom(s, c, i) ==
    IF i > Len(s) THEN 0
    ELSE IF s[i] = c THEN i
    ELSE IndexOfFrom(s, c, i + 1)

\* String.prototype.split(sep) for a one-character separator: always at
\* least one part; "" splits into <<"">>
RECURSIVE Split(_, _)
Split(s, sep) ==
    LET i == IndexOfFrom(s, sep, 1) IN
    IF i = 0 THEN <<s>>
    ELSE <<SubSeq(s, 1, i - 1)>> \o Split(Slice(s, i), sep)

(***************************************************************************)
(* Buffers and their base64 text (library: Buffer.toString("base64"),      *)
(* Buffer.from(text, "base64")).                                           *)
(***************************************************************************)
\* the number of values of a base64 symbol
Base64Radix == 64
\* "=" , the padding of base64
Pad == 61

\* the base64 symbol of the six bits v
Base64Char(v) == ByteRange + v

IsBase64Char(c) == c >= ByteRange /\ c < ByteRange + Base64Radix

\* byte number i of buf, 0 beyond its end
ByteAt(buf, i) == IF i <= Len(buf) THEN buf[i] ELSE 0

\* the six bits of symbol number j of the base64 text of buf: the bytes
\* are taken three at a time, and bits beyond the last byte are 0
Sextet(buf, j) ==
    LET g == 3 * ((j - 1) \div 4)
        r == (j - 1) % 4
    IN  IF r = 0 THEN ByteAt(buf, g + 1) \div 4
        ELSE IF r = 1 THEN (ByteAt(buf, g + 1) % 4) * 16 + ByteAt(buf, g + 2) \div 16
        ELSE IF r = 2 THEN (ByteAt(buf, g + 2) % 16) * 4 + ByteAt(buf, g + 3) \div 64
        ELSE ByteAt(buf, g + 3) % 64

\* buf.toString("base64"): the symbols, and the "=" that fill the last group
\* of four
ToBase64(buf) ==
    [j \in 1..((8 * Len(buf) + 5) \div 6) |-> Base64Char(Sextet(buf, j))]
        \o (IF Len(buf) % 3 = 1 THEN <<Pad, Pad>>
            ELSE IF Len(buf) % 3 = 2 THEN <<Pad>> ELSE << >>)

\* byte number i of the symbols sx: the bits of four symbols make three
\* bytes
ByteOfSextets(sx, i) ==
    LET g == 4 * ((i - 1) \div 3)
        r == (i - 1) % 3
    IN  IF r = 0 THEN (sx[g + 1] - ByteRange) * 4 + (sx[g + 2] - ByteRange) \div 16
        ELSE IF r = 1 THEN ((sx[g + 2] - ByteRange) % 16) * 16 + (sx[g + 3] - ByteRange) \div 4
        ELSE ((sx[g + 3] - ByteRange) % 4) * 64 + (sx[g + 4] - ByteRange)

\* the bytes the symbols sx hold: bits left over after the last whole byte
\* are dropped (<< >> \o f is f written out as a sequence)
BytesOfSextets(sx) ==
    << >> \o [i \in 1..((6 * Len(sx)) \div 8) |-> ByteOfSextets(sx, i)]

\* Buffer.from(text, "base64"): the padding and characters outside the
\* alphabet carry no data and are skipped
FromBase64(text) == BytesOfSextets(SelectSeq(text, IsBase64Char))

\* the utf8 bytes of a string, and back (all characters used are ASCII)
Utf8Encode(s) == s
Utf8Decode(buf) == buf

(***************************************************************************)
(* AES-256-GCM (library: createCipheriv / createDecipheriv).  Counter      *)
(* mode: each plaintext byte is added to a keystream byte that depends on  *)
(* the key, the IV and the position.  The authentication tag is an ideal   *)
(* MAC of AUTH_TAG_LENGTH bytes: an injective function of key, IV and      *)
(* ciphertext (for the ciphertexts of at most 13 bytes of the model),      *)
(* whose bytes depend on their position so that no part of a tag is the    *)
(* same as another part of it.                                             *)
(***************************************************************************)
AUTH_TAG_LENGTH == 16
KeyStream(key, iv, i) == (7 * key + 13 * iv[1] + i) % ByteRange

\* cipher.update(plaintext) + cipher.final()
GcmEncrypt(key, iv, bytes) ==
    << >> \o [i \in 1..Len(bytes) |-> (bytes[i] + KeyStream(key, iv, i)) % ByteRange]

\* decipher.update(ciphertext) without the check of the tag
GcmDecrypt(key, iv, bytes) ==
    << >> \o [i \in 1..Len(bytes) |-> (bytes[i] + ByteRange - KeyStream(key, iv, i)) % ByteRange]

\* the AUTH_TAG_LENGTH bytes of the tag of the authenticated data
TagBytes(data) ==
    << >> \o [i \in 1..AUTH_TAG_LENGTH |-> (ByteAt(data, i) + 89 * i) % ByteRange]

\* cipher.getAuthTag()
GcmAuthTag(key, iv, ciphertext) ==
    TagBytes(<<key, iv[1], Len(ciphertext)>> \o ciphertext)

(***************************************************************************)
(* Key manager (crypto.ts).  A master secret is one of Secrets; 0 stands   *)
(* for an unset (or empty) MCP_MASTER_KEY.  The key file is a record:      *)
(* whether it exists, whether the process may read it, its content and     *)
(* its permission bits.                                                    *)
(***************************************************************************)
NoKeyFile == [exists |-> FALSE, readable |-> FALSE, data |-> 0, mode |-> "none"]

KeyFileOf(secret) == [exists |-> TRUE, readable |-> TRUE, data |-> secret, mode |-> "0600"]

\* scryptSync(secret, "mcp-mail-manager-salt-v1", KEY_LENGTH): injective, and
\* never the secret itself
scryptSync(secret) == 2 * secret + 1

\* a faulty getLocalMasterKey: with no MCP_MASTER_KEY it writes a key file
\* with a new secret whether or not there is one
getLocalMasterKeyRegenerate(e, kf, fresh) ==
    IF e # 0
    THEN [threw |-> FALSE, key |-> scryptSync(e), keyFile |-> kf]
    ELSE IF kf.exists
    THEN [threw |-> FALSE, key |-> scryptSync((kf.data % NumSecrets) + 1),
          keyFile |-> KeyFileOf((kf.data % NumSecrets) + 1)]
    ELSE [threw |-> FALSE, key |-> scryptSync(fresh), keyFile |-> KeyFileOf(fresh)]

\* a faulty getLocalMasterKey: the key file is looked at before the
\* environment
getLocalMasterKeyFileFirst(e, kf, fresh) ==
    IF kf.exists
    THEN IF kf.readable
         THEN [threw |-> FALSE, key |-> scryptSync(kf.data), keyFile |-> kf]
         ELSE [threw |-> TRUE, key |-> 0, keyFile |-> kf]
    ELSE IF e # 0
    THEN [threw |-> FALSE, key |-> scryptSync(e), keyFile |-> kf]
    ELSE [threw |-> FALSE, key |-> scryptSync(fresh), keyFile |-> KeyFileOf(fresh)]

\* getLocalMasterKey(): e is process.env.MCP_MASTER_KEY, kf the key file,
\* fresh what randomBytes(32) returns if it is called.  The result holds
\* the key, whether readFileSync threw, and the key file afterwards.
getLocalMasterKey(e, kf, fresh) ==
    IF e # 0
    THEN [threw |-> FALSE, key |-> scryptSync(e), keyFile |-> kf]
    ELSE IF kf.exists
    THEN IF kf.readable
         THEN [threw |-> FALSE, key |-> scryptSync(kf.data), keyFile |-> kf]
         ELSE [threw |-> TRUE, key |-> 0, keyFile |-> kf]
    ELSE [threw |-> FALSE, key |-> scryptSync(fresh), keyFile |-> KeyFileOf(fresh)]

(***************************************************************************)
(* Field cipher (crypto.ts).  Every result is a record: threw (an          *)
(* exception left the function), error (its message), value (the string    *)
(* returned) and keyFile (the key file afterwards).                        *)
(***************************************************************************)
Returned(v, kf) == [threw |-> FALSE, error |-> "", value |-> v, keyFile |-> kf]

Thrown(msg, kf) == [threw |-> TRUE, error |-> msg, value |-> EmptyString, keyFile |-> kf]

\* the body of encryptLocal once getLocalMasterKey() has answered k; iv is
\* what randomBytes(IV_LENGTH) returns, encrypted what the cipher returns
EncryptLocalFormat(k, iv, encrypted) ==
    Returned(PREFIX_LOCAL \o ToBase64(iv) \o <<Colon>>
                \o ToBase64(GcmAuthTag(k.key, iv, encrypted))
                \o <<Colon>> \o ToBase64(encrypted),
             k.keyFile)

EncryptLocalWith(k, plaintext, iv) ==
    IF k.threw THEN Thrown("EACCES", k.keyFile)
    ELSE EncryptLocalFormat(k, iv, GcmEncrypt(k.key, iv, Utf8Encode(plaintext)))

\* encryptLocal(plaintext)
encryptLocal(plaintext, e, kf, fresh, iv) ==
    EncryptLocalWith(getLocalMasterKey(e, kf, fresh), plaintext, iv)

\* the tag lengths setAuthTag accepts for GCM when createDecipheriv is
\* given no authTagLength
ValidAuthTagLengths == {4, 8, 12, 13, 14, 15, 16}

\* the decipher of decryptLocal: createDecipheriv refuses an empty IV,
\* setAuthTag a tag of invalid length, and decipher.final() verifies the
\* tag, as far as it goes, before anything is returned
Decipher(k, iv, authTag, ciphertext) ==
    IF Len(iv) = 0 THEN Thrown("Invalid initialization vector", k.keyFile)
    ELSE IF Len(authTag) \notin ValidAuthTagLengths
    THEN Thrown("Invalid authentication tag length", k.keyFile)
    ELSE IF authTag # SubSeq(GcmAuthTag(k.key, iv, ciphertext), 1, Len(authTag))
    THEN Thrown("Unsupported state or unable to authenticate data", k.keyFile)
    ELSE Returned(Utf8Decode(GcmDecrypt(k.key, iv, ciphertext)), k.keyFile)

\* the body of decryptLocal once getLocalMasterKey() has answered k and the
\* string is split
DecryptLocalWith(k, parts) ==
    IF k.threw THEN Thrown("EACCES", k.keyFile)
    ELSE IF Len(parts) # 3 THEN Thrown("Invalid local encrypted format", k.keyFile)
    ELSE Decipher(k, FromBase64(parts[1]), FromBase64(parts[2]), FromBase64(parts[3]))

\* a faulty decryptLocal: the format tag is not sliced off before the split
decryptLocalUnsliced(encrypted, e, kf, fresh) ==
    DecryptLocalWith(getLocalMasterKey(e, kf, fresh), Split(encrypted, Colon))

\* decryptLocal(encrypted)
decryptLocal(encrypted, e, kf, fresh) ==
    DecryptLocalWith(getLocalMasterKey(e, kf, fresh),
                     Split(Slice(encrypted, Len(PREFIX_LOCAL)), Colon))

\* isEncrypted(value)
isEncrypted(value) == StartsWith(value, PREFIX_LOCAL)

\* a faulty encrypt: the value is handed back as it came
encryptSkipped(plaintext, e, kf, fresh, iv) == Returned(plaintext, kf)

\* a faulty encrypt: a value that begins with the format tag is encrypted
\* like any other
encryptAlways(plaintext, e, kf, fresh, iv) ==
    IF plaintext = EmptyString
    THEN Returned(plaintext, kf)
    ELSE encryptLocal(plaintext, e, kf, fresh, iv)

\* encrypt(plaintext)
encrypt(plaintext, e, kf, fresh, iv) ==
    IF plaintext = EmptyString \/ isEncrypted(plaintext)
    THEN Returned(plaintext, kf)
    ELSE encryptLocal(plaintext, e, kf, fresh, iv)

\* a faulty decrypt: a value without the format tag goes to decryptLocal
\* as well
decryptAlways(encrypted, e, kf, fresh) ==
    IF encrypted = EmptyString
    THEN Returned(encrypted, kf)
    ELSE decryptLocal(encrypted, e, kf, fresh)

\* decrypt(encrypted)
decrypt(encrypted, e, kf, fresh) ==
    IF encrypted = EmptyString \/ ~isEncrypted(encrypted)
    THEN Returned(encrypted, kf)
    ELSE IF StartsWith(encrypted, PREFIX_LOCAL)
    THEN decryptLocal(encrypted, e, kf, fresh)
    ELSE Thrown("Unknown encryption format", kf)

(***************************************************************************)
(* Credential store (accounts.ts).  An account is a record; a field the    *)
(* caller left out is absent from its domain.  The auth block always has   *)
(* the four sensitive fields: an unpopulated one (undefined or "") is the  *)
(* empty string, which the code treats alike (`value &&`).                 *)
(***************************************************************************)
SENSITIVE_AUTH_FIELDS == <<"password", "accessToken", "refreshToken", "clientSecret">>

PROVIDER_PRESETS ==
    [gmail |-> [provider |-> "gmail",
                imap |-> [host |-> "imap.gmail.com", port |-> 993, tls |-> TRUE],
                smtp |-> [host |-> "smtp.gmail.com", port |-> 587, secure |-> FALSE]],
     outlook |-> [provider |-> "outlook",
                imap |-> [host |-> "outlook.office365.com", port |-> 993, tls |-> TRUE],
                smtp |-> [host |-> "smtp.office365.com", port |-> 587, secure |-> FALSE]],
     yahoo |-> [provider |-> "yahoo",
                imap |-> [host |-> "imap.mail.yahoo.com", port |-> 993, tls |-> TRUE],
                smtp |-> [host |-> "smtp.mail.yahoo.com", port |-> 587, secure |-> FALSE]],
     icloud |-> [provider |-> "icloud",
                imap |-> [host |-> "imap.mail.me.com", port |-> 993, tls |-> TRUE],
                smtp |-> [host |-> "smtp.mail.me.com", port |-> 587, secure |-> FALSE]],
     protonmail |-> [provider |-> "protonmail",
                imap |-> [host |-> "127.0.0.1", port |-> 1143, tls |-> FALSE],
                smtp |-> [host |-> "127.0.0.1", port |-> 1025, secure |-> FALSE]],
     fastmail |-> [provider |-> "fastmail",
                imap |-> [host |-> "imap.fastmail.com", port |-> 993, tls |-> TRUE],
                smtp |-> [host |-> "smtp.fastmail.com", port |-> 587, secure |-> FALSE]],
     zoho |-> [provider |-> "zoho",
                imap |-> [host |-> "imap.zoho.com", port |-> 993, tls |-> TRUE],
                smtp |-> [host |-> "smtp.zoho.com", port |-> 587, secure |-> FALSE]],
     aol |-> [provider |-> "aol",
                imap |-> [host |-> "imap.aol.com", port |-> 993, tls |-> TRUE],
                smtp |-> [host |-> "smtp.aol.com", port |-> 587, secure |-> FALSE]],
     gmx |-> [provider |-> "gmx",
                imap |-> [host |-> "imap.gmx.com", port |-> 993, tls |-> TRUE],
                smtp |-> [host |-> "mail.gmx.com", port |-> 587, secure |-> FALSE]],
     mailru |-> [provider |-> "mailru",
                imap |-> [host |-> "imap.mail.ru", port |-> 993, tls |-> TRUE],
                smtp |-> [host |-> "smtp.mail.ru", port |-> 587, secure |-> FALSE]],
     yandex |-> [provider |-> "yandex",
                imap |-> [host |-> "imap.yandex.com", port |-> 993, tls |-> TRUE],
                smtp |-> [host |-> "smtp.yandex.com", port |-> 587, secure |-> FALSE]],
     custom |-> [provider |-> "custom",
                imap |-> [host |-> "", port |-> 993, tls |-> TRUE],
                smtp |-> [host |-> "", port |-> 587, secure |-> FALSE]]]

\* a faulty merge, { ...account, ...preset }: the preset's field wins
SpreadMergePresetWins(preset, account) ==
    [f \in (DOMAIN preset) \cup (DOMAIN account) |->
        IF f \in DOMAIN preset THEN preset[f] ELSE account[f]]

\* { ...preset, ...account }: a field of account wins over the preset's
SpreadMerge(preset, account) ==
    [f \in (DOMAIN preset) \cup (DOMAIN account) |->
        IF f \in DOMAIN account THEN account[f] ELSE preset[f]]

\* addAccount, "Apply provider preset if specified"
ApplyPreset(account) ==
    IF /\ "provider" \in DOMAIN account
       /\ account.provider # ""
       /\ account.provider \in DOMAIN PROVIDER_PRESETS
    THEN SpreadMerge(PROVIDER_PRESETS[account.provider], account)
    ELSE account

\* one turn of the loop of decryptAccount, r being what decrypt answered for
\* the field: a field whose decrypt throws keeps the value it had (the catch
\* only logs)
DecryptedField(auth, field, r) ==
    IF r.threw THEN auth ELSE [auth EXCEPT ![field] = r.value]

\* the value decryptAccount hands to decrypt for a field, if any
NeedsDecrypt(value) == value # EmptyString /\ isEncrypted(value)

\* a field the loops skip: nothing is called, nothing changes
Skipped(value, kf) == Returned(value, kf)

\* the loop of decryptAccount from field number i on
RECURSIVE DecryptFields(_, _, _, _, _)

\* the turns after field number i, r being what decrypt answered for it
DecryptFieldsNext(auth, i, e, fresh, r) ==
    DecryptFields(DecryptedField(auth, SENSITIVE_AUTH_FIELDS[i], r), i + 1,
                  e, r.keyFile, fresh)

DecryptFields(auth, i, e, kf, fresh) ==
    IF i > Len(SENSITIVE_AUTH_FIELDS) THEN [auth |-> auth, keyFile |-> kf]
    ELSE DecryptFieldsNext(auth, i, e, fresh,
            IF NeedsDecrypt(auth[SENSITIVE_AUTH_FIELDS[i]])
            THEN decrypt(auth[SENSITIVE_AUTH_FIELDS[i]], e, kf, fresh)
            ELSE Skipped(auth[SENSITIVE_AUTH_FIELDS[i]], kf))

\* { ...account, auth: d.auth }, with the key file as the loop left it
WithAuth(account, d) ==
    [account |-> [account EXCEPT !.auth = d.auth], keyFile |-> d.keyFile]

\* decryptAccount(account): never throws
decryptAccount(account, e, kf, fresh) ==
    WithAuth(account, DecryptFields(account.auth, 1, e, kf, fresh))

\* the loop of encryptAccount from field number i on; ivs[i] is what
\* randomBytes(IV_LENGTH) returns for field i.  An exception of encrypt
\* leaves the loop.
RECURSIVE EncryptFields(_, _, _, _, _, _)

\* the value encryptAccount hands to encrypt for a field, if any
NeedsEncrypt(value) == value # EmptyString /\ ~isEncrypted(value)

\* the turns after field number i, r being what encrypt answered for it
EncryptFieldsNext(auth, i, e, fresh, ivs, r) ==
    IF r.threw
    THEN [threw |-> TRUE, auth |-> auth, keyFile |-> r.keyFile]
    ELSE EncryptFields([auth EXCEPT ![SENSITIVE_AUTH_FIELDS[i]] = r.value], i + 1,
                       e, r.keyFile, fresh, ivs)

EncryptFields(auth, i, e, kf, fresh, ivs) ==
    IF i > Len(SENSITIVE_AUTH_FIELDS) THEN [threw |-> FALSE, auth |-> auth, keyFile |-> kf]
    ELSE EncryptFieldsNext(auth, i, e, fresh, ivs,
            IF NeedsEncrypt(auth[SENSITIVE_AUTH_FIELDS[i]])
            THEN encrypt(auth[SENSITIVE_AUTH_FIELDS[i]], e, kf, fresh, ivs[i])
            ELSE Skipped(auth[SENSITIVE_AUTH_FIELDS[i]], kf))

\* { ...account, auth: r.auth }, or the exception that left the loop
WithEncryptedAuth(account, r) ==
    [threw |-> r.threw,
     account |-> [account EXCEPT !.auth = r.auth],
     keyFile |-> r.keyFile]

\* encryptAccount(account)
encryptAccount(account, e, kf, fresh, ivs) ==
    WithEncryptedAuth(account, EncryptFields(account.auth, 1, e, kf, fresh, ivs))

\* accounts.json: whether it exists, whether JSON.parse accepts it, and the
\* array it holds
NoAccountsFile == [exists |-> FALSE, parseable |-> FALSE, doc |-> << >>]

AccountsFileOf(doc) == [exists |-> TRUE, parseable |-> TRUE, doc |-> doc]

\* the raw read of addAccount: [] when the file is absent or unparseable
ReadRawAccounts(file) ==
    IF file.exists /\ file.parseable THEN file.doc ELSE << >>

\* rawAccounts.findIndex((a) => a.id === id), 0 for -1
RECURSIVE FindIndexFrom(_, _, _)
FindIndexFrom(accounts, id, i) ==
    IF i > Len(accounts) THEN 0
    ELSE IF accounts[i].id = id THEN i
    ELSE FindIndexFrom(accounts, id, i + 1)

FindIndex(accounts, id) == FindIndexFrom(accounts, id, 1)

\* a faulty upsert: a record whose identifier exists is left as it was
PutAccountKeepExisting(rawAccounts, encryptedAccount) ==
    IF FindIndex(rawAccounts, encryptedAccount.id) >= 1
    THEN rawAccounts
    ELSE Append(rawAccounts, encryptedAccount)

\* a faulty upsert: a record whose identifier exists is taken out and the
\* new one pushed at the end
PutAccountMoveToEnd(rawAccounts, encryptedAccount) ==
    SelectSeq(rawAccounts, LAMBDA a : a.id # encryptedAccount.id)
        \o <<encryptedAccount>>

\* a faulty upsert: the record is pushed without the findIndex
PutAccountAppend(rawAccounts, encryptedAccount) ==
    Append(rawAccounts, encryptedAccount)

\* addAccount, "Check for duplicate ID": replace in place or push
PutAccount(rawAccounts, encryptedAccount) ==
    LET existingIndex == FindIndex(rawAccounts, encryptedAccount.id) IN
    IF existingIndex >= 1
    THEN [rawAccounts EXCEPT ![existingIndex] = encryptedAccount]
    ELSE Append(rawAccounts, encryptedAccount)

\* a faulty filter: the records after the first match go as well
FilterOutFromMatch(rawAccounts, id) ==
    IF FindIndex(rawAccounts, id) >= 1
    THEN SubSeq(rawAccounts, 1, FindIndex(rawAccounts, id) - 1)
    ELSE rawAccounts

\* rawAccounts.filter((a) => a.id !== id)
FilterOut(rawAccounts, id) ==
    LET keep(a) == a.id # id IN SelectSeq(rawAccounts, keep)

\* the map of getAccounts over the parsed array, from record number i on
RECURSIVE DecryptAll(_, _, _, _, _)

Prepend(account, rest) ==
    [accounts |-> <<account>> \o rest.accounts, keyFile |-> rest.keyFile]

\* the records after number i, d being what decryptAccount answered for it
DecryptAllNext(accounts, i, e, fresh, d) ==
    Prepend(d.account, DecryptAll(accounts, i + 1, e, d.keyFile, fresh))

DecryptAll(accounts, i, e, kf, fresh) ==
    IF i > Len(accounts) THEN [accounts |-> << >>, keyFile |-> kf]
    ELSE DecryptAllNext(accounts, i, e, fresh, decryptAccount(accounts[i], e, kf, fresh))

\* getAccounts(): the list returned and the key file afterwards
getAccounts(file, e, kf, fresh) ==
    IF ~file.exists THEN [accounts |-> << >>, keyFile |-> kf]
    ELSE IF ~file.parseable THEN [accounts |-> << >>, keyFile |-> kf]
    ELSE DecryptAll(file.doc, 1, e, kf, fresh)

\* getAccount(id): <<account>>, or << >> for null
FirstFound(r) ==
    [found |-> IF r.found = << >> THEN << >> ELSE <<Head(r.found)>>,
     keyFile |-> r.keyFile]

\* accounts.find((a) => a.id === id) ?? null
Find(r, id) ==
    [found |-> SelectSeq(r.accounts, LAMBDA a : a.id = id),
     keyFile |-> r.keyFile]

getAccount(id, file, e, kf, fresh) ==
    FirstFound(Find(getAccounts(file, e, kf, fresh), id))

(***************************************************************************)
(* The add_email_account tool (tools/add-account.ts) and what it calls.    *)
(***************************************************************************)
IsAlnum(c) == (48 <= c /\ c <= 57) \/ (65 <= c /\ c <= 90) \/ (97 <= c /\ c <= 122)

\* String.prototype.toLowerCase on ASCII
ToLowerCase(s) == [i \in 1..Len(s) |-> IF 65 <= s[i] /\ s[i] <= 90 THEN s[i] + 32 ELSE s[i]]

\* a faulty derivation: the result is not lower-cased
DeriveIdKeepCase(email) ==
    [i \in 1..Len(email) |-> IF IsAlnum(email[i]) THEN email[i] ELSE Dash]

\* email.replace(/[^a-zA-Z0-9]/g, "-").toLowerCase()
DeriveId(email) ==
    ToLowerCase([i \in 1..Len(email) |-> IF IsAlnum(email[i]) THEN email[i] ELSE Dash])

\* the domainMap of detectProvider, as pairs <<domain, provider>>
domainMap ==
    { \* gmail.com
      <<<<103, 109, 97, 105, 108, 46, 99, 111, 109>>, "gmail">>,
      \* googlemail.com
      <<<<103, 111, 111, 103, 108, 101, 109, 97, 105, 108, 46, 99, 111, 109>>, "gmail">>,
      \* outlook.com
      <<<<111, 117, 116, 108, 111, 111, 107, 46, 99, 111, 109>>, "outlook">>,
      \* hotmail.com
      <<<<104, 111, 116, 109, 97, 105, 108, 46, 99, 111, 109>>, "outlook">>,
      \* live.com
      <<<<108, 105, 118, 101, 46, 99, 111, 109>>, "outlook">>,
      \* msn.com
      <<<<109, 115, 110, 46, 99, 111, 109>>, "outlook">>,
      \* yahoo.com
      <<<<121, 97, 104, 111, 111, 46, 99, 111, 109>>, "yahoo">>,
      \* yahoo.fr
      <<<<121, 97, 104, 111, 111, 46, 102, 114>>, "yahoo">>,
      \* yahoo.co.uk
      <<<<121, 97, 104, 111, 111, 46, 99, 111, 46, 117, 107>>, "yahoo">>,
      \* ymail.com
      <<<<121, 109, 97, 105, 108, 46, 99, 111, 109>>, "yahoo">>,
      \* icloud.com
      <<<<105, 99, 108, 111, 117, 100, 46, 99, 111, 109>>, "icloud">>,
      \* me.com
      <<<<109, 101, 46, 99, 111, 109>>, "icloud">>,
      \* mac.com
      <<<<109, 97, 99, 46, 99, 111, 109>>, "icloud">>,
      \* protonmail.com
      <<<<112, 114, 111, 116, 111, 110, 109, 97, 105, 108, 46, 99, 111, 109>>, "protonmail">>,
      \* proton.me
      <<<<112, 114, 111, 116, 111, 110, 46, 109, 101>>, "protonmail">>,
      \* pm.me
      <<<<112, 109, 46, 109, 101>>, "protonmail">>,
      \* fastmail.com
      <<<<102, 97, 115, 116, 109, 97, 105, 108, 46, 99, 111, 109>>, "fastmail">>,
      \* fastmail.fm
      <<<<102, 97, 115, 116, 109, 97, 105, 108, 46, 102, 109>>, "fastmail">>,
      \* zoho.com
      <<<<122, 111, 104, 111, 46, 99, 111, 109>>, "zoho">>,
      \* aol.com
      <<<<97, 111, 108, 46, 99, 111, 109>>, "aol">>,
      \* gmx.com
      <<<<103, 109, 120, 46, 99, 111, 109>>, "gmx">>,
      \* gmx.fr
      <<<<103, 109, 120, 46, 102, 114>>, "gmx">>,
      \* gmx.de
      <<<<103, 109, 120, 46, 100, 101>>, "gmx">>,
      \* mail.ru
      <<<<109, 97, 105, 108, 46, 114, 117>>, "mailru">>,
      \* yandex.ru
      <<<<121, 97, 110, 100, 101, 120, 46, 114, 117>>, "yandex">>,
      \* yandex.com
      <<<<121, 97, 110, 100, 101, 120, 46, 99, 111, 109>>, "yandex">> }

\* detectProvider(email)
detectProvider(email) ==
    LET parts == Split(email, At)
        domain == IF Len(parts) >= 2 THEN ToLowerCase(parts[2]) ELSE EmptyString
        hits == {m \in domainMap : m[1] = domain}
    IN  IF domain = EmptyString THEN "custom"
        ELSE IF hits = {} THEN "custom"
        ELSE (CHOOSE m \in hits : TRUE)[2]

\* the auth block of a password account
PasswordAuth(user, password) ==
    [type |-> "password", user |-> user, password |-> password,
     accessToken |-> EmptyString, refreshToken |-> EmptyString,
     clientSecret |-> EmptyString]

\* execute of add_email_account, "Build account config".  An argument the
\* caller left out is "" (a string), 0 (a number) or << >> (name).
BuildAccount(args) ==
    LET email == args.email
        provider == IF args.provider # "" THEN args.provider ELSE detectProvider(email)
    IN  [id |-> DeriveId(email),
         email |-> email,
         name |-> IF args.name # EmptyString THEN args.name ELSE Split(email, At)[1],
         provider |-> provider,
         enabled |-> TRUE,
         imap |-> [host |-> args.imap_host,
                   port |-> IF args.imap_port # 0 THEN args.imap_port ELSE 993,
                   tls |-> TRUE],
         smtp |-> [host |-> args.smtp_host,
                   port |-> IF args.smtp_port # 0 THEN args.smtp_port ELSE 587,
                   secure |-> FALSE],
         auth |-> PasswordAuth(email, args.password)]

(***************************************************************************)
(* Inputs.                                                                 *)
(***************************************************************************)
\* "a@b.com" and "A@b.com" (both normalize to "a-b-com"), "u@gmail.com"
EmailAB == <<97, 64, 98, 46, 99, 111, 109>>
EmailUpperAB == <<65, 64, 98, 46, 99, 111, 109>>
EmailGmail == <<117, 64, 103, 109, 97, 105, 108, 46, 99, 111, 109>>
\* "c@d.io"
EmailCD == <<99, 64, 100, 46, 105, 111>>

Emails == {EmailAB, EmailUpperAB, EmailGmail, EmailCD}

Ids == {DeriveId(email) : email \in Emails}

\* "Secret1", "Secret2"
Secret1 == <<83, 101, 99, 114, 101, 116, 49>>
Secret2 == <<83, 101, 99, 114, 101, 116, 50>>
\* "enc:local:x": a string a caller supplies that begins with the format tag
TaggedText == <<101, 110, 99, 58, 108, 111, 99, 97, 108, 58, 120>>

\* what randomBytes(IV_LENGTH) can return
IvBuffers == {<<n>> : n \in 1..NumIVs}

\* the draws of randomBytes(IV_LENGTH) encryptAccount makes for an auth block:
\* one per field it encrypts (a field it skips draws nothing, which is
\* written here as the fixed draw <<1>>)
IvDraws(auth) ==
    { ivs \in [1..Len(SENSITIVE_AUTH_FIELDS) -> IvBuffers] :
        \A i \in 1..Len(SENSITIVE_AUTH_FIELDS) :
            ~NeedsEncrypt(auth[SENSITIVE_AUTH_FIELDS[i]]) => ivs[i] = <<1>> }

\* the draws of randomBytes(32) getLocalMasterKey can make: it draws only
\* when neither the environment nor the key file gives a secret
FreshDraws(e, kf) == IF e = 0 /\ ~kf.exists THEN Secrets ELSE {1}

\* an EncryptedValue of Secret1 made earlier under master secret 1
PreEncrypted == encryptLocal(Secret1, 1, NoKeyFile, 1, <<1>>).value

OAuthAuth(user, accessToken, refreshToken, clientSecret) ==
    [type |-> "oauth2", user |-> user, password |-> EmptyString,
     accessToken |-> accessToken, refreshToken |-> refreshToken,
     clientSecret |-> clientSecret]

NoArgs(email, password) ==
    [email |-> email, password |-> password, name |-> EmptyString, provider |-> "",
     imap_host |-> "", imap_port |-> 0, smtp_host |-> "", smtp_port |-> 0,
     test_connection |-> TRUE]

\* an account with every field set, as add_email_account builds it
AccountOf(email, auth) == [BuildAccount(NoArgs(email, EmptyString)) EXCEPT !.auth = auth]

\* the accounts handed to addAccount: two passwords for one identifier, a
\* password that begins with the format tag, an OAuth token pair under an
\* email that gives the same identifier, and passwords that already are an
\* EncryptedValue
StoreInputs ==
    { AccountOf(EmailAB, PasswordAuth(EmailAB, Secret1)),
      AccountOf(EmailAB, PasswordAuth(EmailAB, Secret2)),
      AccountOf(EmailAB, PasswordAuth(EmailAB, TaggedText)),
      AccountOf(EmailUpperAB, OAuthAuth(EmailUpperAB, Secret1, Secret2, EmptyString)),
      AccountOf(EmailGmail, PasswordAuth(EmailGmail, PreEncrypted)),
      AccountOf(EmailCD, PasswordAuth(EmailCD, PreEncrypted)) }

\* the accounts of the overlapping calls
OverlapInputs ==
    { AccountOf(EmailAB, PasswordAuth(EmailAB, Secret1)),
      AccountOf(EmailUpperAB, PasswordAuth(EmailUpperAB, PreEncrypted)),
      AccountOf(EmailGmail, PasswordAuth(EmailGmail, PreEncrypted)) }

\* accounts handed to addAccount with fields left unset: no imap and no
\* smtp; an imap of the caller's and no smtp; no provider either; the
\* provider "custom"; and an account with every field set
BareAccount(email, provider, password) ==
    [id |-> DeriveId(email), email |-> email, provider |-> provider,
     enabled |-> TRUE, auth |-> PasswordAuth(email, password)]

OwnImap == [host |-> "imap.example.org", port |-> 143, tls |-> FALSE]

WithImap(account, imap) ==
    [f \in (DOMAIN account) \cup {"imap"} |-> IF f = "imap" THEN imap ELSE account[f]]

WithoutProvider(account) == [f \in (DOMAIN account) \ {"provider"} |-> account[f]]

PresetInputs ==
    { BareAccount(EmailGmail, "gmail", Secret1),
      WithImap(BareAccount(EmailGmail, "gmail", PreEncrypted), OwnImap),
      WithoutProvider(BareAccount(EmailAB, "custom", PreEncrypted)),
      BareAccount(EmailAB, "custom", PreEncrypted),
      BareAccount(EmailCD, "protonmail", PreEncrypted),
      AccountOf(EmailCD, PasswordAuth(EmailCD, PreEncrypted)) }

\* the arguments of add_email_account: nothing but email and password (a
\* detected provider, and none), a provider named by the caller, hosts of the
\* caller's, and a call that asks for no connection test
ToolInputs ==
    { NoArgs(EmailGmail, Secret1),
      NoArgs(EmailAB, Secret1),
      [NoArgs(EmailAB, Secret2) EXCEPT !.provider = "yahoo"],
      [NoArgs(EmailGmail, Secret2) EXCEPT !.imap_host = "imap.example.org",
                                          !.smtp_host = "smtp.example.org"],
      [NoArgs(EmailGmail, PreEncrypted) EXCEPT !.test_connection = FALSE] }

(***************************************************************************)
(* State.                                                                  *)
(***************************************************************************)
VARIABLES
    env,          \* process.env.MCP_MASTER_KEY (0: unset)
    keyFile,      \* ~/.mcp-mail-manager/.master-key
    accountsFile, \* ~/.mcp-mail-manager/accounts.json
    pc,           \* per call in flight: where it is suspended
    frame,        \* per call in flight: its local variables
    ret,          \* the result of the call that completed last, if no call
                  \* has started since
    supplied,     \* history: per identifier, the account handed to the last
                  \* addAccount that saved it, and whether that call followed
                  \* one for the same identifier with another password;
                  \* << >> once removeAccount returned true for it
    started,      \* history: the number of store calls started so far
    field         \* a value handed to the field cipher directly: the string
                  \* given, how far it went, and what the last call answered;
                  \* history: the key the last call derived (0: it derived
                  \* none) and the key the first deriving call of the
                  \* process derived

vars == <<env, keyFile, accountsFile, pc, frame, ret, supplied, started, field>>

\* no value is with the field cipher
NoField ==
    [input |-> EmptyString, stage |-> "none", value |-> EmptyString,
     threw |-> FALSE, error |-> "", key |-> 0, first |-> 0]

IdleFrame ==
    [rawAccounts |-> << >>, argument |-> << >>, account |-> << >>,
     encryptedAccount |-> << >>, threw |-> FALSE,
     caller |-> "none", test |-> FALSE]

\* the locals of an addAccount that is suspended: the array it read, the
\* account it was handed, the account after the preset, and what
\* encryptAccount has made of it (or that it threw)
Suspended(rawAccounts, argument, account, r, caller, test) ==
    [rawAccounts |-> rawAccounts, argument |-> <<argument>>, account |-> <<account>>,
     encryptedAccount |-> <<r.account>>, threw |-> r.threw,
     caller |-> caller, test |-> test]

Result(op, id, threw, error, accounts, result, wrote) ==
    [op |-> op, id |-> id, threw |-> threw, error |-> error,
     accounts |-> accounts, result |-> result, wrote |-> wrote]

NoResult == Result("none", EmptyString, FALSE, "", << >>, FALSE, FALSE)

\* the key comes from a key file still to be generated, from
\* MCP_MASTER_KEY, or from a key file left by an earlier run
Init ==
    /\ \/ env = 0 /\ keyFile = NoKeyFile
       \/ env = 1 /\ keyFile = NoKeyFile
       \/ env = 0 /\ keyFile = KeyFileOf(1)
    /\ accountsFile \in {NoAccountsFile, AccountsFileOf(<< >>)}
    /\ pc = [c \in Calls |-> "idle"]
    /\ frame = [c \in Calls |-> IdleFrame]
    /\ ret = NoResult
    /\ supplied = [id \in Ids |-> << >>]
    /\ started = 0
    /\ field = NoField

(***************************************************************************)
(* addAccount(account).  Up to its first suspension the function reads the *)
(* document, applies the preset and enters encryptAccount, where encrypt   *)
(* resolves the key and encrypts; it resumes from                          *)
(* `await encryptAccount(account)` for findIndex and writeFileSync, and    *)
(* other calls of the process run in between.  The turns of the loop of    *)
(* encryptAccount for further fields are taken with the first one: they    *)
(* read the key file and touch nothing else.                               *)
(***************************************************************************)
\* addAccount suspends, r being what encryptAccount makes of the account
AddAccountSuspend(c, account, r) ==
    /\ pc' = [pc EXCEPT ![c] = "addAccount"]
    /\ frame' = [frame EXCEPT ![c] =
                    Suspended(ReadRawAccounts(accountsFile), account,
                              ApplyPreset(account), r, "store", FALSE)]
    /\ keyFile' = r.keyFile

AddAccountRead(c, account) ==
    /\ pc[c] = "idle"
    /\ \E fresh \in FreshDraws(env, keyFile), ivs \in IvDraws(account.auth) :
        AddAccountSuspend(c, account,
                          encryptAccount(ApplyPreset(account), env, keyFile, fresh, ivs))
    /\ ret' = NoResult
    /\ UNCHANGED <<env, accountsFile, supplied>>

\* the history once addAccount has saved the account it was handed
Saved(argument) ==
    [supplied EXCEPT ![argument.id] =
        <<[account |-> argument,
           second |-> /\ supplied[argument.id] # << >>
                      /\ supplied[argument.id][1].account.auth.password
                            # argument.auth.password]>>]

\* an addAccount that reads the document again when it resumes, so that
\* its write keeps what was written while it was suspended
AddAccountSaveReread(c, account, r) ==
    /\ IF r.threw
       THEN /\ ret' = Result("addAccount", account.id, TRUE, "EACCES", << >>, FALSE, FALSE)
            /\ UNCHANGED <<accountsFile, supplied>>
       ELSE /\ accountsFile' = AccountsFileOf(PutAccount(ReadRawAccounts(accountsFile),
                                                         r.encryptedAccount[1]))
            /\ ret' = Result("addAccount", account.id, FALSE, "", << >>, FALSE, TRUE)
            /\ supplied' = Saved(frame[c].argument[1])

\* the end of addAccount, r being what encryptAccount answered: an
\* exception rejects the call before anything is written
AddAccountSave(c, account, r) ==
    /\ IF r.threw
       THEN /\ ret' = Result("addAccount", account.id, TRUE, "EACCES", << >>, FALSE, FALSE)
            /\ UNCHANGED <<accountsFile, supplied>>
       ELSE /\ accountsFile' = AccountsFileOf(PutAccount(r.rawAccounts, r.encryptedAccount[1]))
            /\ ret' = Result("addAccount", account.id, FALSE, "", << >>, FALSE, TRUE)
            /\ supplied' = Saved(frame[c].argument[1])

\* the rest of addAccount: findIndex, writeFileSync
AddAccountWrite(c) ==
    /\ pc[c] = "addAccount"
    /\ frame[c].caller = "store"
    /\ AddAccountSave(c, frame[c].account[1], frame[c])
    /\ pc' = [pc EXCEPT ![c] = "idle"]
    /\ frame' = [frame EXCEPT ![c] = IdleFrame]
    /\ UNCHANGED <<env, keyFile>>

\* removeAccount(id): no await, so it runs in one piece
RemoveAccount(id) ==
    /\ IF ~accountsFile.exists \/ ~accountsFile.parseable
       THEN /\ ret' = Result("removeAccount", id, FALSE, "", << >>, FALSE, FALSE)
            /\ UNCHANGED <<accountsFile, supplied>>
       ELSE LET rawAccounts == accountsFile.doc
                filtered == FilterOut(rawAccounts, id)
            IN  IF Len(filtered) = Len(rawAccounts)
                THEN /\ ret' = Result("removeAccount", id, FALSE, "", << >>, FALSE, FALSE)
                     /\ UNCHANGED <<accountsFile, supplied>>
                ELSE /\ accountsFile' = AccountsFileOf(filtered)
                     /\ ret' = Result("removeAccount", id, FALSE, "", << >>, TRUE, TRUE)
                     /\ supplied' = [supplied EXCEPT ![id] = << >>]
    /\ UNCHANGED <<env, keyFile, pc, frame>>

\* a read returns: the list goes to the caller, the key file is as the
\* decryption left it
Answer(op, id, r) ==
    /\ ret' = Result(op, id, FALSE, "", r.accounts, r.accounts # << >>, FALSE)
    /\ keyFile' = r.keyFile

\* getAccounts()
GetAccounts ==
    /\ \E fresh \in FreshDraws(env, keyFile) :
        Answer("getAccounts", EmptyString, getAccounts(accountsFile, env, keyFile, fresh))
    /\ UNCHANGED <<env, accountsFile, pc, frame, supplied>>

\* getAccount(id)
GetAccount(id) ==
    /\ \E fresh \in FreshDraws(env, keyFile) :
        LET r == getAccount(id, accountsFile, env, keyFile, fresh)
        IN  Answer("getAccount", id, [accounts |-> r.found, keyFile |-> r.keyFile])
    /\ UNCHANGED <<env, accountsFile, pc, frame, supplied>>

AllIdle == \A c \in Calls : pc[c] = "idle"

\* one call at a time: a call starts only when none is in flight
Next ==
    \/ \E account \in StoreInputs :
            AllIdle /\ AddAccountRead(1, account) /\ UNCHANGED <<started, field>>
    \/ \E c \in Calls : AddAccountWrite(c) /\ UNCHANGED <<started, field>>
    \/ \E id \in Ids : AllIdle /\ RemoveAccount(id) /\ UNCHANGED <<started, field>>
    \/ AllIdle /\ GetAccounts /\ UNCHANGED <<started, field>>
    \/ \E id \in Ids : AllIdle /\ GetAccount(id) /\ UNCHANGED <<started, field>>

Spec == Init /\ [][Next]_vars

\* overlapping calls of one server process
InitOverlap ==
    /\ env = 0
    /\ keyFile = NoKeyFile
    /\ accountsFile \in {NoAccountsFile, AccountsFileOf(<< >>)}
    /\ pc = [c \in Calls |-> "idle"]
    /\ frame = [c \in Calls |-> IdleFrame]
    /\ ret = NoResult
    /\ supplied = [id \in Ids |-> << >>]
    /\ started = 0
    /\ field = NoField

\* a new call takes the first free slot (the slots are interchangeable)
NextOverlap ==
    \/ \E c \in Calls, account \in OverlapInputs :
            /\ started < MaxStarted
            /\ pc[c] = "idle" /\ \A d \in Calls : d < c => pc[d] # "idle"
            /\ AddAccountRead(c, account)
            /\ started' = started + 1
            /\ UNCHANGED field
    \/ \E c \in Calls : AddAccountWrite(c) /\ UNCHANGED <<started, field>>
    \/ \E id \in Ids :
            /\ started < MaxStarted
            /\ RemoveAccount(id)
            /\ started' = started + 1
            /\ UNCHANGED field

SpecOverlap == InitOverlap /\ [][NextOverlap]_vars

InitPreset ==
    /\ env = 0
    /\ keyFile \in {NoKeyFile, KeyFileOf(1)}
    /\ accountsFile \in {NoAccountsFile, AccountsFileOf(<< >>)}
    /\ pc = [c \in Calls |-> "idle"]
    /\ frame = [c \in Calls |-> IdleFrame]
    /\ ret = NoResult
    /\ supplied = [id \in Ids |-> << >>]
    /\ started = 0
    /\ field = NoField

\* addAccount called with accounts that leave fields unset, one call at a time
NextPreset ==
    \/ \E account \in PresetInputs :
            AllIdle /\ AddAccountRead(1, account) /\ UNCHANGED <<started, field>>
    \/ \E c \in Calls : AddAccountWrite(c) /\ UNCHANGED <<started, field>>
    \/ \E id \in Ids : AllIdle /\ RemoveAccount(id) /\ UNCHANGED <<started, field>>
    \/ \E id \in Ids : AllIdle /\ GetAccount(id) /\ UNCHANGED <<started, field>>

SpecPreset == InitPreset /\ [][NextPreset]_vars

(***************************************************************************)
(* execute of add_email_account (tools/add-account.ts).  It is suspended   *)
(* where addAccount is, and again at `await addAccount(...)` before        *)
(* verifyConnection reads the account back.                                *)
(***************************************************************************)
\* what the tool returns: success, and the error message if any
ToolResult(id, success, error, wrote) ==
    Result("add_email_account", id, FALSE, error, << >>, success, wrote)

\* execute suspends inside addAccount, r being what encryptAccount makes
\* of the account it built
ToolAddSuspend(c, args, r) ==
    /\ pc' = [pc EXCEPT ![c] = "addAccount"]
    /\ frame' = [frame EXCEPT ![c] =
                    Suspended(ReadRawAccounts(accountsFile), BuildAccount(args),
                              ApplyPreset(BuildAccount(args)), r, "tool",
                              args.test_connection # FALSE)]
    /\ keyFile' = r.keyFile

\* execute up to the first suspension of addAccount
ToolAddRead(c, args) ==
    /\ pc[c] = "idle"
    /\ \E fresh \in FreshDraws(env, keyFile), ivs \in IvDraws(BuildAccount(args).auth) :
        ToolAddSuspend(c, args,
                       encryptAccount(ApplyPreset(BuildAccount(args)), env, keyFile, fresh, ivs))
    /\ ret' = NoResult
    /\ UNCHANGED <<env, accountsFile, supplied>>

\* the end of addAccount inside execute, r being what encryptAccount
\* answered: an exception goes to the catch of execute
ToolAddSave(c, account, r) ==
    /\ IF r.threw
       THEN /\ ret' = ToolResult(account.id, FALSE, "Failed to add account: EACCES", FALSE)
            /\ pc' = [pc EXCEPT ![c] = "idle"]
            /\ frame' = [frame EXCEPT ![c] = IdleFrame]
            /\ UNCHANGED <<accountsFile, supplied>>
       ELSE /\ accountsFile' = AccountsFileOf(PutAccount(r.rawAccounts, r.encryptedAccount[1]))
            /\ supplied' = Saved(frame[c].argument[1])
            /\ IF frame[c].test
               THEN /\ pc' = [pc EXCEPT ![c] = "verifyConnection"]
                    /\ UNCHANGED <<frame, ret>>
               ELSE /\ ret' = ToolResult(account.id, TRUE, "", TRUE)
                    /\ pc' = [pc EXCEPT ![c] = "idle"]
                    /\ frame' = [frame EXCEPT ![c] = IdleFrame]

\* the rest of addAccount inside execute: findIndex, writeFileSync
ToolAddWrite(c) ==
    /\ pc[c] = "addAccount"
    /\ frame[c].caller = "tool"
    /\ ToolAddSave(c, frame[c].account[1], frame[c])
    /\ UNCHANGED <<env, keyFile>>

\* what the library answers to createTransport and transporter.verify():
\* the call nodemailer.createTransporter throws a TypeError when the library
\* has no such function, and otherwise the server accepts or refuses
TransportOutcomes == {"TypeError", "verified", "refused"}

\* verifyConnection(id) and the return of execute, r being what getAccount
\* answered
ToolVerified(c, id, r, outcome) ==
    /\ keyFile' = r.keyFile
    /\ ret' = IF r.found = << >>
              THEN ToolResult(id, FALSE, "Failed to add account: Account not found", TRUE)
              ELSE IF outcome = "TypeError"
              THEN ToolResult(id, FALSE, "Failed to add account: TypeError", TRUE)
              ELSE IF outcome = "refused"
              THEN ToolResult(id, TRUE, "Account saved but connection test failed", TRUE)
              ELSE ToolResult(id, TRUE, "", TRUE)

ToolVerify(c) ==
    /\ pc[c] = "verifyConnection"
    /\ \E fresh \in FreshDraws(env, keyFile), outcome \in TransportOutcomes :
        ToolVerified(c, frame[c].account[1].id,
                     getAccount(frame[c].account[1].id, accountsFile, env, keyFile, fresh),
                     outcome)
    /\ pc' = [pc EXCEPT ![c] = "idle"]
    /\ frame' = [frame EXCEPT ![c] = IdleFrame]
    /\ UNCHANGED <<env, accountsFile, supplied>>

(***************************************************************************)
(* The remove_email_account tool (tools/remove-account.ts).  A confirm     *)
(* the caller left out is FALSE.                                           *)
(***************************************************************************)
\* a faulty execute: confirm is not looked at
ToolRemoveUnconfirmed(id, confirm) ==
    /\ \E fresh \in FreshDraws(env, keyFile) :
            \E account \in {getAccount(id, accountsFile, env, keyFile, fresh)} :
            LET filtered == FilterOut(ReadRawAccounts(accountsFile), id)
            IN  /\ keyFile' = account.keyFile
                /\ IF account.found = << >>
                   THEN /\ ret' = Result("remove_email_account", id, FALSE,
                                         "Account not found", << >>, FALSE, FALSE)
                        /\ UNCHANGED <<accountsFile, supplied>>
                   ELSE IF Len(filtered) = Len(ReadRawAccounts(accountsFile))
                   THEN /\ ret' = Result("remove_email_account", id, FALSE,
                                         "Failed to remove account", << >>, FALSE, FALSE)
                        /\ UNCHANGED <<accountsFile, supplied>>
                   ELSE /\ accountsFile' = AccountsFileOf(filtered)
                        /\ ret' = Result("remove_email_account", id, FALSE, "",
                                         << >>, TRUE, TRUE)
                        /\ supplied' = [supplied EXCEPT ![id] = << >>]
    /\ UNCHANGED <<env, pc, frame>>

\* execute(args): the confirm test, getAccount, removeAccount
ToolRemove(id, confirm) ==
    /\ IF ~confirm
       THEN /\ ret' = Result("remove_email_account", id, FALSE,
                             "Deletion not confirmed. Set confirm=true to proceed.",
                             << >>, FALSE, FALSE)
            /\ UNCHANGED <<keyFile, accountsFile, supplied>>
       ELSE \E fresh \in FreshDraws(env, keyFile) :
            \E account \in {getAccount(id, accountsFile, env, keyFile, fresh)} :
            LET filtered == FilterOut(ReadRawAccounts(accountsFile), id)
            IN  /\ keyFile' = account.keyFile
                /\ IF account.found = << >>
                   THEN /\ ret' = Result("remove_email_account", id, FALSE,
                                         "Account not found", << >>, FALSE, FALSE)
                        /\ UNCHANGED <<accountsFile, supplied>>
                   ELSE IF Len(filtered) = Len(ReadRawAccounts(accountsFile))
                   THEN /\ ret' = Result("remove_email_account", id, FALSE,
                                         "Failed to remove account", << >>, FALSE, FALSE)
                        /\ UNCHANGED <<accountsFile, supplied>>
                   ELSE /\ accountsFile' = AccountsFileOf(filtered)
                        /\ ret' = Result("remove_email_account", id, FALSE, "",
                                         << >>, TRUE, TRUE)
                        /\ supplied' = [supplied EXCEPT ![id] = << >>]
    /\ UNCHANGED <<env, pc, frame>>

\* calls of remove_email_account over the documents addAccount makes of
\* OverlapInputs, one call at a time
NextRemoveTool ==
    \/ \E account \in OverlapInputs :
            AllIdle /\ AddAccountRead(1, account) /\ UNCHANGED <<started, field>>
    \/ \E c \in Calls : AddAccountWrite(c) /\ UNCHANGED <<started, field>>
    \/ \E id \in Ids, confirm \in BOOLEAN :
            AllIdle /\ ToolRemove(id, confirm) /\ UNCHANGED <<started, field>>

SpecRemoveTool == InitPreset /\ [][NextRemoveTool]_vars

\* tool calls, one at a time
NextTool ==
    \/ \E args \in ToolInputs :
            AllIdle /\ ToolAddRead(1, args) /\ UNCHANGED <<started, field>>
    \/ \E c \in Calls : ToolAddWrite(c) /\ UNCHANGED <<started, field>>
    \/ \E c \in Calls : ToolVerify(c) /\ UNCHANGED <<started, field>>
    \/ \E id \in Ids : AllIdle /\ RemoveAccount(id) /\ UNCHANGED <<started, field>>
    \/ \E id \in Ids : AllIdle /\ GetAccount(id) /\ UNCHANGED <<started, field>>

SpecTool == InitPreset /\ [][NextTool]_vars

(***************************************************************************)
(* Faults of the files the store depends on: a stored ciphertext is        *)
(* damaged on disk, the key file loses its read permission.                *)
(***************************************************************************)
\* the accounts of the runs with faults: an OAuth account (two populated
\* sensitive fields) and a password account
FaultInputs ==
    { AccountOf(EmailAB, OAuthAuth(EmailAB, Secret1, Secret2, EmptyString)),
      AccountOf(EmailCD, PasswordAuth(EmailCD, Secret1)) }

\* the base64 symbol that follows c
NextBase64Char(c) == Base64Char((c - ByteRange + 1) % Base64Radix)

\* value with the base64 symbol at position k replaced by another one
FlipAt(value, k) == [value EXCEPT ![k] = NextBase64Char(value[k])]

\* the position of the first symbol of the ciphertext, the last component
FirstOfCiphertext(value) ==
    Len(value) - Len(Split(value, Colon)[Len(Split(value, Colon))]) + 1

\* the position of the first symbol of the authentication tag, the
\* component before the last
FirstOfAuthTag(value) ==
    FirstOfCiphertext(value) - 1
        - Len(Split(value, Colon)[Len(Split(value, Colon)) - 1])

\* what damage makes of a stored EncryptedValue: the first symbol of the
\* authentication tag or of the ciphertext changed, or a component lost
Damaged(value) ==
    {FlipAt(value, FirstOfAuthTag(value)), FlipAt(value, FirstOfCiphertext(value)),
     SubSeq(value, 1, FirstOfCiphertext(value) - 2)}

\* one field of a document whose fields all decrypt is damaged
TamperField ==
    /\ accountsFile.exists /\ accountsFile.parseable
    /\ \A i \in 1..Len(accountsFile.doc), f \in 1..Len(SENSITIVE_AUTH_FIELDS) :
        NeedsDecrypt(accountsFile.doc[i].auth[SENSITIVE_AUTH_FIELDS[f]])
            => ~decrypt(accountsFile.doc[i].auth[SENSITIVE_AUTH_FIELDS[f]], env, keyFile, 1).threw
    /\ \E i \in 1..Len(accountsFile.doc), f \in 1..Len(SENSITIVE_AUTH_FIELDS) :
        /\ NeedsDecrypt(accountsFile.doc[i].auth[SENSITIVE_AUTH_FIELDS[f]])
        /\ \E damaged \in Damaged(accountsFile.doc[i].auth[SENSITIVE_AUTH_FIELDS[f]]) :
            accountsFile' = [accountsFile EXCEPT
                                !.doc[i].auth[SENSITIVE_AUTH_FIELDS[f]] = damaged]
    /\ ret' = NoResult
    /\ UNCHANGED <<env, keyFile, pc, frame, supplied>>

\* the key file loses its read permission (readFileSync will throw EACCES)
RevokeKeyFile ==
    /\ keyFile.exists /\ keyFile.readable
    /\ keyFile' = [keyFile EXCEPT !.readable = FALSE, !.mode = "0000"]
    /\ ret' = NoResult
    /\ UNCHANGED <<env, accountsFile, pc, frame, supplied>>

\* and gets it back
RestoreKeyFile ==
    /\ keyFile.exists /\ ~keyFile.readable
    /\ keyFile' = [keyFile EXCEPT !.readable = TRUE, !.mode = "0600"]
    /\ ret' = NoResult
    /\ UNCHANGED <<env, accountsFile, pc, frame, supplied>>

InitFault ==
    /\ env = 0
    /\ keyFile = KeyFileOf(1)
    /\ accountsFile \in {NoAccountsFile, AccountsFileOf(<< >>)}
    /\ pc = [c \in Calls |-> "idle"]
    /\ frame = [c \in Calls |-> IdleFrame]
    /\ ret = NoResult
    /\ supplied = [id \in Ids |-> << >>]
    /\ started = 0
    /\ field = NoField

NextFault ==
    \/ \E account \in FaultInputs :
            AllIdle /\ AddAccountRead(1, account) /\ UNCHANGED <<started, field>>
    \/ \E c \in Calls : AddAccountWrite(c) /\ UNCHANGED <<started, field>>
    \/ AllIdle /\ GetAccounts /\ UNCHANGED <<started, field>>
    \/ \E id \in Ids : AllIdle /\ GetAccount(id) /\ UNCHANGED <<started, field>>
    \/ AllIdle /\ TamperField /\ UNCHANGED <<started, field>>
    \/ RevokeKeyFile /\ UNCHANGED <<started, field>>
    \/ RestoreKeyFile /\ UNCHANGED <<started, field>>

SpecFault == InitFault /\ [][NextFault]_vars

(***************************************************************************)
(* The field cipher called directly: encrypt(s), then decrypt of what it   *)
(* returned, under one master secret.                                      *)
(***************************************************************************)
\* the strings handed to the cipher: the empty string, plaintexts, ":"
\* alone, "a:b", a string that begins with the format tag, an
\* EncryptedValue, and the format tag followed by nothing, by "a:b" and by
\* "a:b:c:d"
CipherInputs ==
    {EmptyString, Secret1, Secret2, <<Colon>>, <<97, Colon, 98>>, TaggedText, PreEncrypted,
     PREFIX_LOCAL,
     PREFIX_LOCAL \o <<97, Colon, 98>>,
     PREFIX_LOCAL \o <<97, Colon, 98, Colon, 99, Colon, 100>>}

\* the key a call of the cipher got from getLocalMasterKey(), kf being the
\* key file after the call: it asks for the key if it goes as far as
\* encryptLocal or decryptLocal, and gets one unless readFileSync threw
KeyUsed(asks, r) ==
    IF asks /\ ~(r.threw /\ r.error = "EACCES")
    THEN getLocalMasterKey(env, r.keyFile, 0).key
    ELSE 0

\* what a call of the cipher answered, r, for the value given as input
Answered(input, stage, r, key) ==
    [input |-> input, stage |-> stage, value |-> r.value,
     threw |-> r.threw, error |-> r.error,
     key |-> key, first |-> IF field.first # 0 THEN field.first ELSE key]

\* a string is given
Give(s) ==
    /\ field.stage \in {"none", "failed", "decrypted", "tampered-decrypted",
                       "encrypted-twice", "derived", "decrypted-given"}
    /\ field' = [NoField EXCEPT !.input = s, !.stage = "given", !.value = s,
                                !.first = field.first]
    /\ UNCHANGED <<env, keyFile, accountsFile, pc, frame, ret, supplied, started>>

\* encrypt(field.input), r being what it answered
Encrypted(r) ==
    /\ field' = Answered(field.input, IF r.threw THEN "failed" ELSE "encrypted", r,
                         KeyUsed(NeedsEncrypt(field.input), r))
    /\ keyFile' = r.keyFile

Encrypt ==
    /\ field.stage = "given"
    /\ \E fresh \in FreshDraws(env, keyFile), iv \in IvBuffers :
        Encrypted(encrypt(field.input, env, keyFile, fresh, iv))
    /\ UNCHANGED <<env, accountsFile, pc, frame, ret, supplied, started>>

\* encrypt of the value encrypt returned, r being what it answered
EncryptedAgain(r) ==
    /\ field' = Answered(field.input, IF r.threw THEN "failed" ELSE "encrypted-twice", r,
                         KeyUsed(NeedsEncrypt(field.value), r))
    /\ keyFile' = r.keyFile

EncryptAgain ==
    /\ field.stage = "encrypted"
    /\ \E fresh \in FreshDraws(env, keyFile), iv \in IvBuffers :
        EncryptedAgain(encrypt(field.value, env, keyFile, fresh, iv))
    /\ UNCHANGED <<env, accountsFile, pc, frame, ret, supplied, started>>

\* addAccount of an account whose password is the value encrypt returned
StoreField ==
    /\ field.stage = "encrypted"
    /\ field.value # EmptyString
    /\ AllIdle
    /\ AddAccountRead(1, AccountOf(EmailAB, PasswordAuth(EmailAB, field.value)))
    /\ UNCHANGED <<started, field>>

\* decrypt of the value encrypt returned, r being what it answered
Decrypted(r) ==
    /\ field' = Answered(field.input, "decrypted", r,
                         KeyUsed(NeedsDecrypt(field.value), r))
    /\ keyFile' = r.keyFile

Decrypt ==
    /\ field.stage = "encrypted"
    /\ \E fresh \in FreshDraws(env, keyFile) :
        Decrypted(decrypt(field.value, env, keyFile, fresh))
    /\ UNCHANGED <<env, accountsFile, pc, frame, ret, supplied, started>>

\* decrypt of the string given, r being what it answered
DecryptedGiven(r) ==
    /\ field' = Answered(field.input, "decrypted-given", r,
                         KeyUsed(NeedsDecrypt(field.input), r))
    /\ keyFile' = r.keyFile

DecryptGiven ==
    /\ field.stage = "given"
    /\ \E fresh \in FreshDraws(env, keyFile) :
        DecryptedGiven(decrypt(field.input, env, keyFile, fresh))
    /\ UNCHANGED <<env, accountsFile, pc, frame, ret, supplied, started>>

InitCipher ==
    /\ \/ env = 0 /\ keyFile = NoKeyFile
       \/ env \in Secrets /\ keyFile = NoKeyFile
       \/ env = 0 /\ keyFile \in {KeyFileOf(s) : s \in Secrets}
    /\ accountsFile = NoAccountsFile
    /\ pc = [c \in Calls |-> "idle"]
    /\ frame = [c \in Calls |-> IdleFrame]
    /\ ret = NoResult
    /\ supplied = [id \in Ids |-> << >>]
    /\ started = 0
    /\ field = NoField

NextCipher ==
    \/ \E s \in CipherInputs : Give(s)
    \/ Encrypt
    \/ Decrypt
    \/ EncryptAgain
    \/ DecryptGiven
    \/ StoreField
    \/ \E c \in Calls : AddAccountWrite(c) /\ UNCHANGED <<started, field>>

SpecCipher == InitCipher /\ [][NextCipher]_vars

(***************************************************************************)
(* The field cipher of one process while the key file is changed from      *)
(* outside the process: its content is replaced, it is deleted.            *)
(* MCP_MASTER_KEY and the key file can both be there from the start, and   *)
(* the key file can be unreadable.                                         *)
(***************************************************************************)
\* the key file gets another content
ReplaceKeyFile(secret) ==
    /\ keyFile.exists /\ keyFile.readable
    /\ keyFile.data # secret
    /\ keyFile' = KeyFileOf(secret)
    /\ UNCHANGED <<env, accountsFile, pc, frame, ret, supplied, started, field>>

\* the key file is deleted
DeleteKeyFile ==
    /\ keyFile.exists
    /\ keyFile' = NoKeyFile
    /\ UNCHANGED <<env, accountsFile, pc, frame, ret, supplied, started, field>>

InitKey ==
    /\ env \in {0} \cup Secrets
    /\ keyFile \in {NoKeyFile} \cup {KeyFileOf(s) : s \in Secrets}
                             \cup {[KeyFileOf(s) EXCEPT !.readable = FALSE, !.mode = "0000"]
                                        : s \in Secrets}
    /\ accountsFile = NoAccountsFile
    /\ pc = [c \in Calls |-> "idle"]
    /\ frame = [c \in Calls |-> IdleFrame]
    /\ ret = NoResult
    /\ supplied = [id \in Ids |-> << >>]
    /\ started = 0
    /\ field = NoField

\* the strings handed to the cipher of the runs with a changing key file
KeyInputs == {Secret1, TaggedText, PreEncrypted}

NextKey ==
    \/ \E s \in KeyInputs : Give(s)
    \/ Encrypt
    \/ Decrypt
    \/ \E secret \in Secrets : ReplaceKeyFile(secret)
    \/ DeleteKeyFile

SpecKey == InitKey /\ [][NextKey]_vars

(***************************************************************************)
(* The field cipher over an EncryptedValue that is changed between encrypt *)
(* and decrypt: one character of its authentication tag or of its          *)
(* ciphertext is replaced by another one.                                  *)
(***************************************************************************)
\* "!" , a character outside the base64 alphabet
Bang == 33

\* the characters put in the place of c: for a base64 symbol, the symbols
\* that differ from it in the lowest and in the highest of its six bits,
\* and "!"; for the padding, "!"
Replacements(c) ==
    IF IsBase64Char(c)
    THEN {NextBase64Char(c), Base64Char((c - ByteRange + 32) % Base64Radix), Bang}
    ELSE {Bang}

\* one character of the EncryptedValue that encryptLocal returned is changed
Tamper ==
    /\ field.stage = "encrypted"
    /\ NeedsEncrypt(field.input)
    /\ \E k \in (FirstOfAuthTag(field.value)..(FirstOfCiphertext(field.value) - 2))
                    \cup (FirstOfCiphertext(field.value)..Len(field.value)) :
         \E c \in Replacements(field.value[k]) :
            field' = [field EXCEPT !.stage = "tampered",
                                   !.value = [field.value EXCEPT ![k] = c]]
    /\ UNCHANGED <<env, keyFile, accountsFile, pc, frame, ret, supplied, started>>

\* decrypt of the changed value, r being what it answered
DecryptedTampered(r) ==
    /\ field' = Answered(field.input, "tampered-decrypted", r,
                         KeyUsed(NeedsDecrypt(field.value), r))
    /\ keyFile' = r.keyFile

DecryptTampered ==
    /\ field.stage = "tampered"
    /\ \E fresh \in FreshDraws(env, keyFile) :
        DecryptedTampered(decrypt(field.value, env, keyFile, fresh))
    /\ UNCHANGED <<env, accountsFile, pc, frame, ret, supplied, started>>

\* the plaintexts of the runs with a changed EncryptedValue: "Secret1", of
\* seven bytes, and "abc", of three (a base64 text with padding, and one
\* without)
TamperInputs == {Secret1, <<97, 98, 99>>}

NextTamper ==
    \/ \E s \in TamperInputs : Give(s)
    \/ Encrypt
    \/ Tamper
    \/ DecryptTampered

SpecTamper == InitCipher /\ [][NextTamper]_vars

(***************************************************************************)
(* The identifier add_email_account derives from the email argument.       *)
(***************************************************************************)
\* "user.name+tag@Example.COM"
EmailExample == <<117, 115, 101, 114, 46, 110, 97, 109, 101, 43, 116, 97, 103, 64, 69, 120, 97, 109, 112, 108, 101, 46, 67, 79, 77>>

\* the email arguments: every string of at most MaxEmailLen characters out
\* of a letter of each case ("a", "Z"), a digit, ".", "@", "+", "_" and a
\* letter that is not ASCII; and the addresses used elsewhere
EmailInputs ==
    UNION {[1..n -> {97, 90, 53, 46, 64, 43, 95, 233}] : n \in 1..MaxEmailLen}
        \cup Emails \cup {EmailExample}

\* execute, "Generate account ID from email"
Derive ==
    /\ field.stage = "given"
    /\ field' = [field EXCEPT !.stage = "derived", !.value = DeriveId(field.input)]
    /\ UNCHANGED <<env, keyFile, accountsFile, pc, frame, ret, supplied, started>>

NextDerive ==
    \/ \E email \in EmailInputs : Give(email)
    \/ Derive

SpecDerive == InitCipher /\ [][NextDerive]_vars

(***************************************************************************)
(* An accounts file that JSON.parse rejects: the text of the records is    *)
(* still on disk (a truncated write, an edit by hand), the store cannot    *)
(* read it.                                                                *)
(***************************************************************************)
\* the accounts file becomes unparseable; what it held stays in it
CorruptAccountsFile ==
    /\ accountsFile.exists /\ accountsFile.parseable
    /\ accountsFile' = [accountsFile EXCEPT !.parseable = FALSE]
    /\ ret' = NoResult
    /\ UNCHANGED <<env, keyFile, pc, frame, supplied>>

NextCorrupt ==
    \/ Next
    \/ AllIdle /\ CorruptAccountsFile /\ UNCHANGED <<started, field>>

SpecCorrupt == Init /\ [][NextCorrupt]_vars

(***************************************************************************)
(* Several server processes of one user, started with no MCP_MASTER_KEY    *)
(* and no key file.  Each slot is a process with one call in flight.       *)
(* getLocalMasterKey is two file operations, existsSync and writeFileSync, *)
(* and another process can run between them.                               *)
(***************************************************************************)
\* process p calls addAccount, and in getLocalMasterKey existsSync(KEY_FILE)
\* answers false
ColdExists(p, account) ==
    /\ pc[p] = "idle"
    /\ env = 0 /\ ~keyFile.exists
    /\ pc' = [pc EXCEPT ![p] = "getLocalMasterKey"]
    /\ frame' = [frame EXCEPT ![p] =
                    [IdleFrame EXCEPT !.rawAccounts = ReadRawAccounts(accountsFile),
                                      !.argument = <<account>>,
                                      !.account = <<ApplyPreset(account)>>,
                                      !.caller = "store"]]
    /\ ret' = NoResult
    /\ UNCHANGED <<env, keyFile, accountsFile, supplied>>

\* process p goes on: it generates a secret, writes the key file whatever
\* is there by now, and encrypts under the key of its secret; addAccount
\* is then suspended at await encryptAccount
ColdWrite(p) ==
    /\ pc[p] = "getLocalMasterKey"
    /\ \E fresh \in Secrets, ivs \in IvDraws(frame[p].account[1].auth) :
        LET r == encryptAccount(frame[p].account[1], env, NoKeyFile, fresh, ivs)
        IN  /\ keyFile' = r.keyFile
            /\ frame' = [frame EXCEPT ![p] =
                            Suspended(frame[p].rawAccounts, frame[p].argument[1],
                                      frame[p].account[1], r, "store", FALSE)]
    /\ pc' = [pc EXCEPT ![p] = "addAccount"]
    /\ ret' = NoResult
    /\ UNCHANGED <<env, accountsFile, supplied>>

\* the accounts are those with the plaintext password Secret1
NextCold ==
    \/ \E p \in Calls :
        \E account \in {a \in StoreInputs \cup FaultInputs : a.auth.password = Secret1} :
            /\ started < MaxStarted
            /\ started' = started + 1
            /\ UNCHANGED field
            /\ \/ ColdExists(p, account)
               \/ keyFile.exists /\ AddAccountRead(p, account)
    \/ \E p \in Calls : ColdWrite(p) /\ UNCHANGED <<started, field>>
    \/ \E p \in Calls : AddAccountWrite(p) /\ UNCHANGED <<started, field>>
    \/ AllIdle /\ GetAccounts /\ UNCHANGED <<started, field>>

SpecCold == InitOverlap /\ [][NextCold]_vars

(***************************************************************************)
(* Restarts of the server process.  The store keeps nothing in memory      *)
(* between calls: a restart ends the calls in flight and leaves the files  *)
(* as they are.  A restart with no call in flight changes nothing the      *)
(* store can see.                                                          *)
(***************************************************************************)
Restart ==
    /\ ~AllIdle
    /\ pc' = [c \in Calls |-> "idle"]
    /\ frame' = [c \in Calls |-> IdleFrame]
    /\ ret' = NoResult
    /\ UNCHANGED <<env, keyFile, accountsFile, supplied>>

\* the calls of Next, the accounts being those of StoreInputs under two
\* identifiers, and restarts
NextRestart ==
    \/ \E account \in {a \in StoreInputs : a.email # EmailGmail /\ a.auth.password # TaggedText} :
            AllIdle /\ AddAccountRead(1, account) /\ UNCHANGED <<started, field>>
    \/ \E c \in Calls : AddAccountWrite(c) /\ UNCHANGED <<started, field>>
    \/ \E id \in Ids : AllIdle /\ RemoveAccount(id) /\ UNCHANGED <<started, field>>
    \/ AllIdle /\ GetAccounts /\ UNCHANGED <<started, field>>
    \/ \E id \in Ids : AllIdle /\ GetAccount(id) /\ UNCHANGED <<started, field>>
    \/ Restart /\ UNCHANGED <<started, field>>

SpecRestart == Init /\ [][NextRestart]_vars

(***************************************************************************)
(* Properties of the store, one call at a time (Spec).                     *)
(***************************************************************************)
\* the array accounts.json holds ([] when there is no file)
Doc == accountsFile.doc

FieldNumbers == 1..Len(SENSITIVE_AUTH_FIELDS)

\* the account last handed to addAccount for the identifier of a record
SuppliedFor(record) == supplied[record.id][1].account

\* stored is what the store writes for a sensitive field handed over as
\* given: nothing for nothing, given itself if it begins with the format
\* tag, and otherwise a string with the format tag that is not given and
\* that decrypts to given, whole, under the key in use
IsStoredFormOf(stored, given) ==
    IF given = EmptyString THEN stored = EmptyString
    ELSE IF isEncrypted(given) THEN stored = given
    ELSE /\ stored # given
         /\ ~decrypt(stored, env, keyFile, 1).threw
         /\ decrypt(stored, env, keyFile, 1).value = given

\* C1: after any sequence of addAccount and removeAccount calls that starts
\* from an absent or empty document, every populated sensitive auth field of
\* every record of the document on disk begins with the format tag, and no
\* field handed over as plaintext is on disk as it was given or encrypted
\* in part
OnDiskSensitiveFieldsEncrypted ==
    \A i \in 1..Len(Doc) : \A f \in FieldNumbers :
        /\ Doc[i].auth[SENSITIVE_AUTH_FIELDS[f]] # EmptyString
            => isEncrypted(Doc[i].auth[SENSITIVE_AUTH_FIELDS[f]])
        /\ IsStoredFormOf(Doc[i].auth[SENSITIVE_AUTH_FIELDS[f]],
                          SuppliedFor(Doc[i]).auth[SENSITIVE_AUTH_FIELDS[f]])

\* the document holds a record saved from a plaintext password, and holds it
\* after a removal has rewritten the document
WitnessOnDiskEncrypted ==
    /\ ret.op = "removeAccount" /\ ret.result
    /\ \E i \in 1..Len(Doc) :
        /\ supplied[Doc[i].id] # << >>
        /\ supplied[Doc[i].id][1].account.auth.password = Secret1
        /\ Doc[i].auth.password # EmptyString

\* C2: one call at a time and the master secret unchanged: getAccount(id)
\* returns the record of the last addAccount for id not followed by a
\* removal, each sensitive field that was handed over as plaintext holding
\* that plaintext (so the second of two passwords), and returns null when id
\* was never added or was removed since; getAccounts() lists exactly the
\* identifiers added and not removed since
ReadReturnsSupplied ==
    /\ ret.op = "getAccount" =>
        IF supplied[ret.id] = << >>
        THEN ret.accounts = << >>
        ELSE /\ Len(ret.accounts) = 1
             /\ ret.accounts[1].id = ret.id
             /\ ret.accounts[1].email = supplied[ret.id][1].account.email
             /\ \A f \in FieldNumbers :
                    ~isEncrypted(supplied[ret.id][1].account.auth[SENSITIVE_AUTH_FIELDS[f]])
                        => ret.accounts[1].auth[SENSITIVE_AUTH_FIELDS[f]]
                            = supplied[ret.id][1].account.auth[SENSITIVE_AUTH_FIELDS[f]]
    /\ ret.op = "getAccounts" =>
        {ret.accounts[i].id : i \in 1..Len(ret.accounts)}
            = {id \in Ids : supplied[id] # << >>}

\* getAccount has returned the second of two different passwords saved for
\* one identifier
WitnessSecondPassword ==
    /\ ret.op = "getAccount"
    /\ supplied[ret.id] # << >>
    /\ supplied[ret.id][1].second
    /\ supplied[ret.id][1].account.auth.password = Secret2
    /\ ret.accounts # << >>
    /\ ret.accounts[1].auth.password = Secret2

\* the positions of the records removeAccount(id) keeps
KeptPositions(doc, id) == {i \in 1..Len(doc) : doc[i].id # id}

\* after is before without the records of id, the others in their order
IsRemovalOf(after, before, id) ==
    /\ Len(after) = Cardinality(KeptPositions(before, id))
    /\ \A i \in KeptPositions(before, id) :
        after[Cardinality({j \in KeptPositions(before, id) : j <= i})] = before[i]

\* a step of removeAccount: it is the only one that answers without any
\* call starting or ending
IsRemoveStep == ret'.op = "removeAccount" /\ pc' = pc

Held(id) == \E i \in 1..Len(Doc) : Doc[i].id = id

\* C10: removeAccount(id) returns true exactly when the document held a
\* record of id; it then writes the document without the records of id, the
\* others unchanged and in their order; otherwise it returns false and
\* leaves the file as it is
RemoveAccountFrame ==
    [][IsRemoveStep =>
        /\ ret'.result = Held(ret'.id)
        /\ ret'.wrote = Held(ret'.id)
        /\ Held(ret'.id) =>
            /\ accountsFile'.exists /\ accountsFile'.parseable
            /\ IsRemovalOf(accountsFile'.doc, Doc, ret'.id)
        /\ ~Held(ret'.id) => accountsFile' = accountsFile
        /\ UNCHANGED <<env, keyFile>>]_vars

\* removeAccount has returned true and two records are left
WitnessRemoved ==
    /\ ret.op = "removeAccount"
    /\ ret.result
    /\ Len(Doc) = 2

\* C17: one call at a time, the write of addAccount for identifier id
\* leaves every other record of the document on disk as it is stored and
\* where it is; if the document holds a record of id, the new record is at
\* its position and the document is no longer; if not, the new record
\* follows the others
UpsertFrame ==
    [][\A c \in Calls :
        (pc[c] = "addAccount" /\ pc'[c] = "idle" /\ ~ret'.threw) =>
            /\ accountsFile'.exists /\ accountsFile'.parseable
            /\ \A i \in 1..Len(Doc) :
                IF Doc[i].id = ret'.id
                THEN accountsFile'.doc[i].id = ret'.id
                ELSE accountsFile'.doc[i] = Doc[i]
            /\ IF Held(ret'.id)
               THEN Len(accountsFile'.doc) = Len(Doc)
               ELSE /\ Len(accountsFile'.doc) = Len(Doc) + 1
                    /\ accountsFile'.doc[Len(Doc) + 1].id = ret'.id
      ]_vars

\* addAccount has replaced the first of three records by one with another
\* password
WitnessReplacedInPlace ==
    /\ ret.op = "addAccount" /\ ~ret.threw
    /\ Len(Doc) = 3
    /\ Doc[1].id = ret.id
    /\ supplied[ret.id][1].second

(***************************************************************************)
(* Properties of overlapping calls (SpecOverlap).                          *)
(***************************************************************************)
\* C5: in every state reached by addAccount and removeAccount calls,
\* overlapping ones included, from an absent or empty document, no two
\* records of the document have the same identifier
IdentifiersUnique ==
    \A i, j \in 1..Len(Doc) : Doc[i].id = Doc[j].id => i = j

\* an account whose email normalizes to the identifier of a record saved
\* before has replaced it, while another call is suspended
WitnessCollidingEmailReplaced ==
    /\ \E c \in Calls : pc[c] = "addAccount"
    /\ \E i \in 1..Len(Doc) :
        /\ Doc[i].email = EmailUpperAB
        /\ supplied[Doc[i].id] # << >>
        /\ supplied[Doc[i].id][1].second

\* C7: the write of addAccount stores the array the call read before it was
\* suspended, with its own record put in: a record another call wrote in
\* between is not in it (lost update)
WriteFromStaleRead ==
    [][\A c \in Calls :
        (pc[c] = "addAccount" /\ pc'[c] = "idle" /\ ~ret'.threw) =>
            \A i \in 1..Len(accountsFile'.doc) :
                \/ accountsFile'.doc[i].id = frame[c].account[1].id
                \/ \E j \in 1..Len(frame[c].rawAccounts) :
                        frame[c].rawAccounts[j] = accountsFile'.doc[i]]_vars

\* two calls were started, both addAccount, for two identifiers; both have
\* returned without error; the document holds the record of the second
\* writer only
WitnessLostUpdate ==
    /\ started = 2
    /\ AllIdle
    /\ ret.op = "addAccount" /\ ~ret.threw
    /\ Cardinality({id \in Ids : supplied[id] # << >>}) = 2
    /\ Len(Doc) = 1
    /\ Doc[1].id = ret.id

\* C18: overlapping calls included, once removeAccount(id) has returned true
\* the document holds no record of id for as long as no addAccount for id
\* has saved since and none is in progress; a call for another identifier
\* that read the document before the removal does not bring the record
\* back
RemovalDurable ==
    \A id \in Ids :
        (/\ supplied[id] = << >>
         /\ \A c \in Calls : pc[c] = "addAccount" => frame[c].account[1].id # id)
            => ~Held(id)

(***************************************************************************)
(* Properties of the store over an unparseable accounts file               *)
(* (SpecCorrupt).                                                          *)
(***************************************************************************)
\* the accounts file exists and JSON.parse rejects it
Unparseable == accountsFile.exists /\ ~accountsFile.parseable

\* C19: while the accounts file exists and cannot be parsed no operation of
\* the store writes it: getAccounts returns the empty list, removeAccount
\* returns false, and addAccount leaves the file as it is
UnparseableNeverOverwritten ==
    [][Unparseable =>
        /\ accountsFile' = accountsFile
        /\ ret'.op = "getAccounts" => ret'.accounts = << >> /\ ~ret'.threw
        /\ ret'.op = "removeAccount" => ~ret'.result /\ ~ret'.wrote
      ]_vars

\* the part of it that is about the reads and removeAccount
UnparseableReadsAndRemoval ==
    [][Unparseable =>
        /\ ret'.op \in {"getAccounts", "getAccount", "removeAccount"} =>
                accountsFile' = accountsFile
        /\ ret'.op = "getAccounts" => ret'.accounts = << >> /\ ~ret'.threw
        /\ ret'.op = "removeAccount" => ~ret'.result /\ ~ret'.wrote
      ]_vars

(***************************************************************************)
(* Properties of the key file across calls and restarts (SpecRestart).     *)
(***************************************************************************)
\* sensitive field f of record is account's field, where that was handed
\* to addAccount as plaintext
HoldsPlaintextOf(record, account, f) ==
    (/\ account.auth[SENSITIVE_AUTH_FIELDS[f]] # EmptyString
     /\ ~isEncrypted(account.auth[SENSITIVE_AUTH_FIELDS[f]]))
        => record.auth[SENSITIVE_AUTH_FIELDS[f]] = account.auth[SENSITIVE_AUTH_FIELDS[f]]

\* decrypt answered opened: it returned given
OpensTo(opened, given) == ~opened.threw /\ opened.value = given

\* C20: with MCP_MASTER_KEY unset, over calls and restarts of the process:
\* a step changes the key file only when there is none, and then creates
\* it; after every step that writes the key file or the document each
\* stored field that was handed over as plaintext decrypts to it under the
\* key file as it is; getAccounts and getAccount return without error,
\* every such field holding its plaintext
KeyFileStable ==
    [][env = 0 =>
        /\ keyFile' # keyFile => ~keyFile.exists /\ keyFile'.exists
        /\ (keyFile' # keyFile \/ accountsFile' # accountsFile) =>
            \A i \in 1..Len(accountsFile'.doc), f \in FieldNumbers :
            LET given == supplied'[accountsFile'.doc[i].id][1].account.auth[SENSITIVE_AUTH_FIELDS[f]]
            IN  (given # EmptyString /\ ~isEncrypted(given))
                    => OpensTo(decrypt(accountsFile'.doc[i].auth[SENSITIVE_AUTH_FIELDS[f]],
                                       env', keyFile', 1),
                               given)
        /\ ret'.op \in {"getAccounts", "getAccount"} =>
            /\ ~ret'.threw
            /\ \A i \in 1..Len(ret'.accounts), f \in FieldNumbers :
                HoldsPlaintextOf(ret'.accounts[i],
                                 supplied'[ret'.accounts[i].id][1].account, f)
      ]_vars

\* the store has generated the key file, and a later getAccounts returns
\* two records, one of them with the two tokens it was saved with
WitnessKeyFileKept ==
    /\ env = 0 /\ keyFile.exists /\ keyFile.data = NumSecrets
    /\ ret.op = "getAccounts" /\ Len(ret.accounts) >= 2
    /\ \E i \in 1..Len(ret.accounts) :
        /\ supplied[ret.accounts[i].id][1].account.auth.accessToken = Secret1
        /\ ret.accounts[i].auth.accessToken = Secret1
        /\ ret.accounts[i].auth.refreshToken = Secret2

(***************************************************************************)
(* Properties of the provider presets (SpecPreset, SpecTool).              *)
(***************************************************************************)
PresetFields == {"provider", "imap", "smtp"}

HasPreset(account) ==
    /\ "provider" \in DOMAIN account
    /\ account.provider \in DOMAIN PROVIDER_PRESETS

\* C8: in the stored record every field the caller supplied keeps the
\* caller's value (the sensitive fields apart, which are encrypted), and
\* every preset field (provider, imap, smtp) the caller left unset holds the
\* value of the preset of the record's provider; nothing else is added
PresetFillsUnsetFieldsOnly ==
    \A i \in 1..Len(Doc) :
        /\ \A f \in (DOMAIN SuppliedFor(Doc[i])) \ {"auth"} :
                f \in DOMAIN Doc[i] /\ Doc[i][f] = SuppliedFor(Doc[i])[f]
        /\ Doc[i].auth.type = SuppliedFor(Doc[i]).auth.type
        /\ Doc[i].auth.user = SuppliedFor(Doc[i]).auth.user
        /\ IF HasPreset(SuppliedFor(Doc[i]))
           THEN /\ DOMAIN Doc[i] = (DOMAIN SuppliedFor(Doc[i])) \cup PresetFields
                /\ \A f \in PresetFields \ DOMAIN SuppliedFor(Doc[i]) :
                        Doc[i][f] = PROVIDER_PRESETS[Doc[i].provider][f]
           ELSE DOMAIN Doc[i] = DOMAIN SuppliedFor(Doc[i])

\* a stored record keeps the imap block of its caller and has the smtp
\* block of the gmail preset, which the caller left unset
WitnessPresetFilled ==
    \E i \in 1..Len(Doc) :
        /\ "imap" \in DOMAIN SuppliedFor(Doc[i])
        /\ "smtp" \notin DOMAIN SuppliedFor(Doc[i])
        /\ Doc[i].imap = OwnImap
        /\ Doc[i].imap # PROVIDER_PRESETS.gmail.imap
        /\ Doc[i].smtp = PROVIDER_PRESETS.gmail.smtp

\* C9: a record add_email_account stored for a provider other than custom,
\* called with no imap_host and no smtp_host, has the IMAP and SMTP hosts of
\* the provider's preset
ToolStoresPresetHosts ==
    \A i \in 1..Len(Doc) :
        (/\ SuppliedFor(Doc[i]).provider # "custom"
         /\ SuppliedFor(Doc[i]).imap.host = ""
         /\ SuppliedFor(Doc[i]).smtp.host = "")
            => /\ Doc[i].imap.host = PROVIDER_PRESETS[Doc[i].provider].imap.host
               /\ Doc[i].smtp.host = PROVIDER_PRESETS[Doc[i].provider].smtp.host

\* C22: when add_email_account returns success: false the document is the
\* one the call found: an error of the connection test leaves no saved
\* account behind the reported failure
ToolFailureLeavesDocument ==
    [][\A c \in Calls :
        (/\ frame[c].caller = "tool"
         /\ pc[c] \in {"addAccount", "verifyConnection"} /\ pc'[c] = "idle"
         /\ ~ret'.result)
            => ReadRawAccounts(accountsFile') = frame[c].rawAccounts
      ]_vars

\* C23: remove_email_account(account_id, confirm) changes the document only
\* when confirm is true and the document holds a record of account_id:
\* without confirm it returns success: false and touches neither file; for
\* an identifier the document does not hold it returns success: false,
\* "Account not found" when confirmed, the document as it was; it returns
\* success: true only when the document held the record and holds it no
\* longer, the other records as they were
RemoveToolFrame ==
    [][\A id \in Ids, confirm \in BOOLEAN :
        (/\ ret'.op = "remove_email_account" /\ ret'.id = id
         /\ AllIdle /\ ToolRemove(id, confirm)) =>
            /\ ~confirm => /\ ~ret'.result
                           /\ accountsFile' = accountsFile /\ keyFile' = keyFile
            /\ ~Held(id) => /\ ~ret'.result
                            /\ accountsFile' = accountsFile
                            /\ confirm => ret'.error = "Account not found"
            /\ accountsFile' # accountsFile => confirm /\ Held(id)
            /\ ret'.result => /\ confirm /\ Held(id)
                              /\ IsRemovalOf(accountsFile'.doc, Doc, id)
                              /\ \A i \in 1..Len(accountsFile'.doc) :
                                    accountsFile'.doc[i].id # id
      ]_vars

\* the tool was called without confirm for a record the document holds,
\* and the record is still there
WitnessUnconfirmedKept ==
    /\ ret.op = "remove_email_account"
    /\ ~ret.result
    /\ ret.error = "Deletion not confirmed. Set confirm=true to proceed."
    /\ Held(ret.id)

\* the part of it that holds: a call that fails before addAccount writes
\* leaves the document as it was, and the connection test runs over the
\* saved record
ToolSavesBeforeTest ==
    [][\A c \in Calls :
        /\ (frame[c].caller = "tool" /\ pc[c] = "addAccount" /\ pc'[c] = "idle" /\ ~ret'.result)
                => accountsFile' = accountsFile
        /\ (pc[c] # "verifyConnection" /\ pc'[c] = "verifyConnection")
                => \E i \in 1..Len(accountsFile'.doc) :
                        accountsFile'.doc[i] = frame[c].encryptedAccount[1]
      ]_vars

(***************************************************************************)
(* Properties under faults (SpecFault).                                    *)
(***************************************************************************)
\* a step of getAccounts()
IsListStep == ret'.op = "getAccounts"

\* decrypt of a stored value fails (malformed, or the tag does not verify)
FailsToDecrypt(value) ==
    NeedsDecrypt(value) /\ decrypt(value, env, keyFile, 1).threw

\* C4: getAccounts() over a document with a field whose ciphertext fails to
\* decrypt returns every record of the document, the failing field empty,
\* every other sensitive field decrypted and every other field as stored
ListLeavesFailingFieldEmpty ==
    [][(IsListStep /\ keyFile.readable) =>
        /\ Len(ret'.accounts) = Len(Doc)
        /\ \A i \in 1..Len(Doc) :
            /\ [ret'.accounts[i] EXCEPT !.auth = Doc[i].auth] = Doc[i]
            /\ ret'.accounts[i].auth.type = Doc[i].auth.type
            /\ ret'.accounts[i].auth.user = Doc[i].auth.user
            /\ \A f \in FieldNumbers :
                ret'.accounts[i].auth[SENSITIVE_AUTH_FIELDS[f]] =
                    IF FailsToDecrypt(Doc[i].auth[SENSITIVE_AUTH_FIELDS[f]])
                    THEN EmptyString
                    ELSE decrypt(Doc[i].auth[SENSITIVE_AUTH_FIELDS[f]], env, keyFile, 1).value
      ]_vars

\* the key file exists and cannot be read, and no MCP_MASTER_KEY is set
KeyFileUnreadable == env = 0 /\ keyFile.exists /\ ~keyFile.readable

\* the document holds a field that getAccounts hands to decrypt
DocNeedsKey ==
    \E i \in 1..Len(Doc), f \in FieldNumbers :
        NeedsDecrypt(Doc[i].auth[SENSITIVE_AUTH_FIELDS[f]])

\* call c starts as an addAccount with a field that encryptAccount hands
\* to encrypt
AddNeedsKey(c) ==
    /\ pc[c] = "idle" /\ pc'[c] = "addAccount"
    /\ \E f \in FieldNumbers :
        NeedsEncrypt(frame'[c].account[1].auth[SENSITIVE_AUTH_FIELDS[f]])

\* C6: with the key file unreadable every store operation that needs the
\* key ends with an error at its caller: addAccount of a record with a
\* sensitive field, getAccounts and getAccount over a record with an
\* encrypted field; no secret is generated and the key file is not written
UnreadableKeyFileIsFatal ==
    [][/\ \A c \in Calls :
            (KeyFileUnreadable /\ AddNeedsKey(c)) =>
                frame'[c].threw /\ keyFile' = keyFile /\ accountsFile' = accountsFile
       /\ \A c \in Calls :
            (pc[c] = "addAccount" /\ frame[c].threw /\ pc'[c] = "idle") =>
                ret'.threw /\ keyFile' = keyFile /\ accountsFile' = accountsFile
       /\ (KeyFileUnreadable /\ ret'.op \in {"getAccounts", "getAccount"} /\ DocNeedsKey) =>
                ret'.threw /\ keyFile' = keyFile
      ]_vars

(***************************************************************************)
(* Properties of the key file across processes (SpecCold).                 *)
(***************************************************************************)
\* C21: processes that start with no MCP_MASTER_KEY and no key file end up
\* on one secret: once no call is in flight, every encrypted field of the
\* document decrypts under the key of the key file as it is
ColdStartSafe ==
    AllIdle =>
        \A i \in 1..Len(Doc), f \in FieldNumbers : ~FailsToDecrypt(Doc[i].auth[SENSITIVE_AUTH_FIELDS[f]])

(***************************************************************************)
(* Properties of the field cipher (SpecCipher).                            *)
(***************************************************************************)
\* decrypt has answered for the value encrypt returned
RoundTripDone == field.stage = "decrypted"

\* C3 as stated: for every string s, the empty string and the strings that
\* begin with the format tag included, decrypt(encrypt(s)) returns s
RoundTripEveryString ==
    RoundTripDone => ~field.threw /\ field.value = field.input

\* C3: for every string s that does not begin with the format tag, the
\* empty string included, decrypt(encrypt(s)) returns s
RoundTripPlaintext ==
    (RoundTripDone /\ ~isEncrypted(field.input))
        => ~field.threw /\ field.value = field.input

\* "Secret1" has gone through encrypt and decrypt under a key generated on
\* the way
WitnessRoundTrip ==
    /\ field.stage = "decrypted"
    /\ field.input = Secret1
    /\ field.value = Secret1
    /\ ~field.threw
    /\ env = 0

\* C14: for every non-empty s for which encrypt returns, the value begins
\* with the format tag; encrypt of that value returns it unchanged and
\* leaves the key file alone; and addAccount of a record whose password is
\* that value writes a record with that very password
EncryptIdempotent ==
    [][/\ (field.stage = "given" /\ field'.stage = "encrypted"
                /\ field.input # EmptyString)
            => isEncrypted(field'.value)
       /\ (field.stage = "encrypted" /\ field'.stage \in {"encrypted-twice", "failed"}
                /\ field.input # EmptyString)
            => /\ field'.stage = "encrypted-twice"
               /\ field'.value = field.value
               /\ keyFile' = keyFile
       /\ \A c \in Calls :
            (pc[c] = "addAccount" /\ pc'[c] = "idle")
                => /\ ~ret'.threw
                   /\ Len(accountsFile'.doc) = 1
                   /\ isEncrypted(frame[c].argument[1].auth.password)
                   /\ accountsFile'.doc[1].auth.password
                        = frame[c].argument[1].auth.password
      ]_vars

\* encrypt has been called on the value it returned for "Secret1", after
\* addAccount has written a record with that value as its password
WitnessEncryptedTwice ==
    /\ field.stage = "encrypted-twice"
    /\ field.input = Secret1
    /\ field.value # Secret1
    /\ Len(Doc) = 1
    /\ Doc[1].auth.password = field.value

\* the number of colon-delimited components of s after the format tag
ComponentsAfterTag(s) ==
    1 + Cardinality({i \in (Len(PREFIX_LOCAL) + 1)..Len(s) : s[i] = Colon})

IdExample == <<117, 115, 101, 114, 45, 110, 97, 109, 101, 45, 116, 97, 103, 45, 101, 120, 97, 109, 112, 108, 101, 45, 99, 111, 109>>

\* the character of the identifier for character c of the email
IdChar(c) ==
    IF 65 <= c /\ c <= 90 THEN c + 32
    ELSE IF (97 <= c /\ c <= 122) \/ (48 <= c /\ c <= 57) THEN c
    ELSE Dash

\* C15: the identifier has the length of the email; each of its characters
\* is the lower-case form of the email's character if that is a letter of
\* A-Z or a-z, the character itself if it is a digit, and "-" otherwise,
\* hence one of a-z, 0-9 and "-"; user.name+tag@Example.COM gives
\* user-name-tag-example-com
IdentifierDerivation ==
    field.stage = "derived" =>
        /\ Len(field.value) = Len(field.input)
        /\ \A i \in 1..Len(field.input) :
            /\ field.value[i] = IdChar(field.input[i])
            /\ \/ 97 <= field.value[i] /\ field.value[i] <= 122
               \/ 48 <= field.value[i] /\ field.value[i] <= 57
               \/ field.value[i] = Dash
        /\ field.input = EmailExample => field.value = IdExample

\* the identifier of user.name+tag@Example.COM has been derived
WitnessIdExample ==
    /\ field.stage = "derived"
    /\ field.input = EmailExample
    /\ field.value = IdExample

(***************************************************************************)
(* Properties of the key manager (SpecKey).                                *)
(***************************************************************************)
\* a step of encrypt that goes as far as encryptLocal
IsEncryptLocalStep ==
    field.stage = "given" /\ field'.stage \in {"encrypted", "failed"}
        /\ NeedsEncrypt(field.input)

\* a step of decrypt that goes as far as decryptLocal
IsDecryptLocalStep ==
    field.stage = "encrypted" /\ field'.stage = "decrypted"
        /\ NeedsDecrypt(field.value)

\* value is what encryptLocal makes of plaintext under key, for some IV
IsEncryptedUnder(value, plaintext, key) ==
    \E iv \in IvBuffers :
        value = PREFIX_LOCAL \o ToBase64(iv) \o <<Colon>>
                    \o ToBase64(GcmAuthTag(key, iv, GcmEncrypt(key, iv, Utf8Encode(plaintext))))
                    \o <<Colon>> \o ToBase64(GcmEncrypt(key, iv, Utf8Encode(plaintext)))

KeyResolvedOnce ==
    [][/\ field'.key # 0 => field'.key = field'.first
       /\ (field.first # 0 /\ (IsEncryptLocalStep \/ IsDecryptLocalStep))
            => /\ field'.error # "EACCES"
               /\ keyFile' = keyFile
      ]_vars

(***************************************************************************)
(* Properties of the field cipher over a changed EncryptedValue            *)
(* (SpecTamper).                                                           *)
(***************************************************************************)
\* the errors of the decipher over a tag that does not verify
AuthenticationErrors ==
    {"Unsupported state or unable to authenticate data",
     "Invalid authentication tag length"}

\* C13: decrypt of an EncryptedValue that encryptLocal returned and of which
\* one character of the authentication tag or of the ciphertext was
\* changed fails with an authentication error: it returns nothing
TamperFailsAuthentication ==
    field.stage = "tampered-decrypted"
        => field.threw /\ field.error \in AuthenticationErrors

\* decrypt of a changed EncryptedValue returns the plaintext that was
\* encrypted, whole, if it returns at all
TamperNeverGarbage ==
    (field.stage = "tampered-decrypted" /\ ~field.threw)
        => field.value = field.input

====
